---------------------------- MODULE Spec2Model ----------------------------
(***************************************************************************)
(* A model of mcp_print/tools/colors.py: the Pantone name resolver         *)
(* (pantone_to_cmyk), the proximity search (pantone_search), the CMYK to   *)
(* RGB conversion (cmyk_to_rgb), the colour difference (color_delta_e)     *)
(* and the lazily loaded database (_load_db), called from one thread or    *)
(* from several; of mcp_print/tools/spot.py (spot_color_separator),        *)
(* mcp_print/tools/preflight.py (preflight_check) and                      *)
(* mcp_print/tools/substrate.py (substrate_simulator).                     *)
(*                                                                         *)
(* Python strings are TLA+ strings; a character is a string of length 1,   *)
(* read with SubSeq(s, i, i).  An optional argument (None or a value) is   *)
(* a sequence of length 0 or 1.  CMYK channels are integers.               *)
(***************************************************************************)
EXTENDS Integers, Sequences, FiniteSets, TLC

VARIABLES
    dataset,    \* the contents of data/pantone_colors.json, in file order
    _DB,        \* the module-level cache: None, or the loaded list
    call,       \* the operation last called, with its arguments
    ret,        \* what that call returned or raised
    trace,      \* what that call did: index probes and fuzzy scores, in order
    loads,      \* how many times the file was opened and parsed
    pc          \* where each thread stands in _load_db

vars == <<dataset, _DB, call, ret, trace, loads, pc>>

None == <<>>
Some(v) == <<v>>
IsNone(o) == o = <<>>
Val(o) == o[1]

Min2(a, b) == IF a <= b THEN a ELSE b
Max2(a, b) == IF a >= b THEN a ELSE b

-----------------------------------------------------------------------------
(* Python str operations, as far as colors.py uses them.                   *)

CharAt(s, i) == SubSeq(s, i, i)

\* str.isspace for the characters of the model: the space and the tab.
IsSpace(ch) == ch \in {" ", "\t"}

UpperLetters == "ABCDEFGHIJKLMNOPQRSTUVWXYZ"
LowerLetters == "abcdefghijklmnopqrstuvwxyz"

\* The characters of the model in code point order (str comparison, sorted()).
CodePointOrder == "\t !\"#'+-.0123456789ABCDEFGHIJKLMNOPQRSTUVWXYZ\\_abcdefghijklmnopqrstuvwxyz"

IndexIn(alphabet, ch) ==
    IF \E i \in 1..Len(alphabet) : CharAt(alphabet, i) = ch
    THEN CHOOSE i \in 1..Len(alphabet) : CharAt(alphabet, i) = ch
    ELSE 0

LowerChar(ch) ==
    LET i == IndexIn(UpperLetters, ch)
    IN  IF i = 0 THEN ch ELSE CharAt(LowerLetters, i)

UpperChar(ch) ==
    LET i == IndexIn(LowerLetters, ch)
    IN  IF i = 0 THEN ch ELSE CharAt(UpperLetters, i)

RECURSIVE lower(_)
lower(s) == IF s = "" THEN "" ELSE LowerChar(CharAt(s, 1)) \o lower(Tail(s))

RECURSIVE lstrip(_)
lstrip(s) == IF s # "" /\ IsSpace(CharAt(s, 1)) THEN lstrip(Tail(s)) ELSE s

RECURSIVE rstrip(_)
rstrip(s) ==
    IF s # "" /\ IsSpace(CharAt(s, Len(s)))
    THEN rstrip(SubSeq(s, 1, Len(s) - 1))
    ELSE s

strip(s) == rstrip(lstrip(s))

startswith(s, p) == Len(p) <= Len(s) /\ SubSeq(s, 1, Len(p)) = p

endswith(s, p) == Len(p) <= Len(s) /\ SubSeq(s, Len(s) - Len(p) + 1, Len(s)) = p

\* `sub in s`
Contains(s, sub) ==
    \E i \in 1..(Len(s) - Len(sub) + 1) : SubSeq(s, i, i + Len(sub) - 1) = sub

\* str.replace(old, new) for a non-empty old: every occurrence, left to right.
RECURSIVE replace(_, _, _)
replace(s, old, new) ==
    IF Len(s) < Len(old) THEN s
    ELSE IF startswith(s, old)
         THEN new \o replace(SubSeq(s, Len(old) + 1, Len(s)), old, new)
         ELSE CharAt(s, 1) \o replace(Tail(s), old, new)

\* re.sub(r"\s+", " ", s)
RECURSIVE CollapseSpace(_)
CollapseSpace(s) ==
    IF s = "" THEN ""
    ELSE IF IsSpace(CharAt(s, 1))
         THEN " " \o CollapseSpace(lstrip(s))
         ELSE CharAt(s, 1) \o CollapseSpace(Tail(s))

\* The first whitespace-free run of s, which starts with a non-space.
RECURSIVE FirstWord(_)
FirstWord(s) ==
    IF s = "" \/ IsSpace(CharAt(s, 1)) THEN ""
    ELSE CharAt(s, 1) \o FirstWord(Tail(s))

\* str.split(): the whitespace-separated tokens, in order.
RECURSIVE split(_)
split(s) ==
    LET t == lstrip(s)
    IN  IF t = "" THEN <<>>
        ELSE LET w == FirstWord(t)
             IN  <<w>> \o split(SubSeq(t, Len(w) + 1, Len(t)))

NoSpace(s) == \A i \in 1..Len(s) : ~IsSpace(CharAt(s, i))

\* s < t in Python's str order (by code point, a prefix first).
RECURSIVE StrLess(_, _)
StrLess(s, t) ==
    IF t = "" THEN FALSE
    ELSE IF s = "" THEN TRUE
    ELSE LET a == IndexIn(CodePointOrder, CharAt(s, 1))
             b == IndexIn(CodePointOrder, CharAt(t, 1))
         IN  IF a # b THEN a < b ELSE StrLess(Tail(s), Tail(t))

\* " ".join(sorted(tokens)) for a set of tokens
RECURSIVE JoinSorted(_)
JoinSorted(tokens) ==
    IF tokens = {} THEN ""
    ELSE LET least == CHOOSE w \in tokens : \A v \in tokens \ {w} : StrLess(w, v)
             rest  == tokens \ {least}
         IN  IF rest = {} THEN least ELSE least \o " " \o JoinSorted(rest)

SetOf(seq) == {seq[i] : i \in 1..Len(seq)}

-----------------------------------------------------------------------------
(* Name matching: _normalize_key, _expand_query, _fuzzy_score.             *)

\* _SUFFIX_MAP, in the order the dict lists (and so iterates) its items.
_SUFFIX_MAP == << <<"coated", "C">>, <<"uncoated", "U">>, <<"matte", "M">> >>

_normalize_key_Uncollapsed(name) == lower(strip(name))

_normalize_key(name) == CollapseSpace(lower(strip(name)))

\* re.match(r"^(?:pantone\s*)?(\S+?)([CcUuMm])$", ql): None, or the groups
\* (num, suffix).  The optional prefix is tried first; the space-free run must
\* then reach the end of the string, so the suffix is the last character.
SuffixLetters == {"C", "c", "U", "u", "M", "m"}

RunWithSuffix(s) ==
    Len(s) >= 2 /\ NoSpace(s) /\ CharAt(s, Len(s)) \in SuffixLetters

ShorthandMatch(ql) ==
    LET rest == IF startswith(ql, "pantone")
                THEN lstrip(SubSeq(ql, Len("pantone") + 1, Len(ql)))
                ELSE ""
        hit  == IF RunWithSuffix(rest) THEN rest
                ELSE IF RunWithSuffix(ql) THEN ql
                ELSE ""
    IN  IF hit = "" THEN None
        ELSE Some(<<SubSeq(hit, 1, Len(hit) - 1), CharAt(hit, Len(hit))>>)

\* The candidates the loop over _SUFFIX_MAP adds for its i-th item.
LongSuffixCandidates(ql, i) ==
    LET word     == _SUFFIX_MAP[i][1]
        letter   == _SUFFIX_MAP[i][2]
        replaced == replace(ql, word, letter)
    IN  IF ~Contains(ql, word) THEN <<>>
        ELSE <<_normalize_key(replaced)>>
             \o (IF startswith(replaced, "pantone") THEN <<>>
                 ELSE <<_normalize_key("pantone " \o replaced)>>)

RecognizedEndings == <<"c", "u", "m", " coated", " uncoated", " matte">>

has_suffix(ql) ==
    \E i \in 1..Len(RecognizedEndings) : endswith(rstrip(ql), RecognizedEndings[i])

\* A variant that tries the uncoated suffix first.
AppendedSuffixes_UncoatedFirst == <<"u", "c", "m">>

AppendedSuffixes == <<"c", "u", "m">>

\* The candidates the final loop adds for the suffix s.
AppendedCandidates(ql, s) ==
    <<_normalize_key(ql \o " " \o s)>>
    \o (IF startswith(ql, "pantone") THEN <<>>
        ELSE <<_normalize_key("pantone " \o ql \o " " \o s)>>)

_expand_query(raw) ==
    LET q  == strip(raw)
        ql == strip(lower(q))
        m  == ShorthandMatch(ql)
    IN  <<_normalize_key(q)>>
        \o (IF startswith(ql, "pantone") THEN <<>>
            ELSE <<_normalize_key("pantone " \o q)>>)
        \o LongSuffixCandidates(ql, 1)
        \o LongSuffixCandidates(ql, 2)
        \o LongSuffixCandidates(ql, 3)
        \o (IF IsNone(m) THEN <<>>
            ELSE <<_normalize_key("pantone " \o Val(m)[1] \o " "
                                  \o UpperChar(Val(m)[2]))>>)
        \o (IF has_suffix(ql) THEN <<>>
            ELSE AppendedCandidates(ql, AppendedSuffixes[1])
                 \o AppendedCandidates(ql, AppendedSuffixes[2])
                 \o AppendedCandidates(ql, AppendedSuffixes[3]))

\* A score is the exact fraction num/den (den > 0) that the float of the code
\* approximates; for the token counts of the model the floats compare, with
\* each other and with 0.5, as the fractions do.
Frac(n, d) == [num |-> n, den |-> d]
FracGt(a, b) == a.num * b.den > b.num * a.den
FracGe(a, b) == a.num * b.den >= b.num * a.den
FracEq(a, b) == a.num * b.den = b.num * a.den
FracMin_Uncapped(a, b) == a

FracMin(a, b) == IF FracGt(a, b) THEN b ELSE a

noise == {"pantone", "c", "u", "m"}

SubstringBonus_Fifth == Frac(1, 5)

SubstringBonus == Frac(3, 10)

_fuzzy_score(query, candidate_name) ==
    LET q_tokens     == SetOf(split(lower(query)))
        c_tokens     == SetOf(split(lower(candidate_name)))
        q_meaningful == q_tokens \ noise
        c_meaningful == c_tokens \ noise
        q_core       == JoinSorted(q_meaningful)
        c_core       == JoinSorted(c_meaningful)
        mx           == Max2(Cardinality(q_meaningful), Cardinality(c_meaningful))
        overlap      == Cardinality(q_meaningful \cap c_meaningful)
        bonus        == Contains(c_core, q_core) \/ Contains(q_core, c_core)
    IN  IF q_tokens = {} THEN Frac(0, 1)
        ELSE IF q_meaningful = {}
        THEN Frac(Cardinality(q_tokens \cap c_tokens),
                  Max2(Cardinality(q_tokens), Cardinality(c_tokens)))
        ELSE FracMin(IF bonus
                     THEN Frac(overlap * SubstringBonus.den + SubstringBonus.num * mx,
                               mx * SubstringBonus.den)
                     ELSE Frac(overlap, mx),
                     Frac(1, 1))

-----------------------------------------------------------------------------
(* Results: a call returns a value or raises ValueError with a message.    *)

Ok(v) == [ok |-> TRUE, value |-> v]
Raise(message) == [ok |-> FALSE, error |-> message]

Digits == "0123456789"
HexDigitsUpper == "0123456789ABCDEF"
HexDigitsLower == "0123456789abcdef"

\* str(n) of a natural number, and of an int
RECURSIVE NatToStr(_)
NatToStr(n) ==
    IF n < 10 THEN CharAt(Digits, n + 1)
    ELSE NatToStr(n \div 10) \o CharAt(Digits, (n % 10) + 1)

IntToStr(n) == IF n < 0 THEN "-" \o NatToStr(0 - n) ELSE NatToStr(n)

\* repr(s) of a str: quoted with ', or with " when s holds a ' and no "; the
\* backslash, the chosen quote and the tab are escaped.
ReprQuote(s) == IF Contains(s, "'") /\ ~Contains(s, "\"") THEN "\"" ELSE "'"

RECURSIVE ReprBody(_, _)
ReprBody(s, quote) ==
    IF s = "" THEN ""
    ELSE LET ch == CharAt(s, 1)
         IN  (IF ch = "\\" THEN "\\\\"
              ELSE IF ch = "\t" THEN "\\t"
              ELSE IF ch = quote THEN "\\" \o ch
              ELSE ch)
             \o ReprBody(Tail(s), quote)

repr(s) == ReprQuote(s) \o ReprBody(s, ReprQuote(s)) \o ReprQuote(s)

-----------------------------------------------------------------------------
(* CMYK -> RGB -> Lab.                                                     *)

MinChannel == 0
MaxChannel == 100
MaxRgb == 255

_clamp(value, lo, hi) == Max2(lo, Min2(hi, value))

\* The (ink, k) pairs at which 255 * (1 - ink/100) * (1 - k/100) is exactly
\* halfway between two integers and for which the double computed by the code
\* rounds up; at the other halfway pairs it rounds down.
HalfwayRoundsUp ==
    { <<0, 10>>, <<10, 0>>, <<0, 50>>, <<50, 0>>, <<0, 70>>, <<70, 0>>,
      <<60, 75>>, <<75, 60>> }

\* A variant that truncates instead of rounding: int(255 * ...).
RoundedChannel_Truncated(ink, k) ==
    (MaxRgb * (MaxChannel - ink) * (MaxChannel - k)) \div (MaxChannel * MaxChannel)

\* round(255 * (1 - ink/100) * (1 - k/100)) for integers in 0..100: the
\* nearest integer of 255 * (100 - ink) * (100 - k) / 10000.
RoundedChannel(ink, k) ==
    LET n == MaxRgb * (MaxChannel - ink) * (MaxChannel - k)
        d == MaxChannel * MaxChannel
        q == n \div d
        r == n % d
    IN  IF 2 * r < d THEN q
        ELSE IF 2 * r > d THEN q + 1
        ELSE IF <<ink, k>> \in HalfwayRoundsUp THEN q + 1 ELSE q

\* f"{v:02X}"
RECURSIVE HexUpper(_)
HexUpper(v) ==
    IF v < 16 THEN CharAt(HexDigitsUpper, v + 1)
    ELSE HexUpper(v \div 16) \o CharAt(HexDigitsUpper, (v % 16) + 1)

\* A variant without the zero padding: f"{v:X}".
Format02X_NoPad(v) == IF v < 0 THEN "-" \o HexUpper(0 - v) ELSE HexUpper(v)

Format02X(v) ==
    IF v < 0 THEN "-" \o (IF 0 - v < 16 THEN "0" ELSE "") \o HexUpper(0 - v)
    ELSE (IF v < 16 THEN "0" ELSE "") \o HexUpper(v)

InRange(val) == MinChannel <= val /\ val <= MaxChannel

RangeError(name, val) ==
    Raise(name \o " must be between 0 and 100, got " \o IntToStr(val))

\* The range check of cmyk_to_rgb and pantone_search: None, or the error of
\* the first channel (in the order c, m, y, k) out of range.
ChannelNames == <<"c", "m", "y", "k">>

FirstOutOfRange(chans) ==
    IF \A i \in 1..4 : InRange(chans[i]) THEN None
    ELSE LET i == CHOOSE j \in 1..4 :
                      /\ ~InRange(chans[j])
                      /\ \A h \in 1..(j - 1) : InRange(chans[h])
         IN  Some(RangeError(ChannelNames[i], chans[i]))

cmyk_to_rgb(c, m, y, k) ==
    LET bad == FirstOutOfRange(<<c, m, y, k>>)
        r   == _clamp(RoundedChannel(c, k), 0, MaxRgb)
        g   == _clamp(RoundedChannel(m, k), 0, MaxRgb)
        b   == _clamp(RoundedChannel(y, k), 0, MaxRgb)
    IN  IF ~IsNone(bad) THEN Val(bad)
        ELSE Ok([r |-> r, g |-> g, b |-> b,
                 hex |-> "#" \o Format02X(r) \o Format02X(g) \o Format02X(b)])

\* str.lstrip("#")
RECURSIVE LstripHash(_)
LstripHash(s) == IF s # "" /\ CharAt(s, 1) = "#" THEN LstripHash(Tail(s)) ELSE s

HexValue(ch) ==
    LET u == IndexIn(HexDigitsUpper, ch)
        l == IndexIn(HexDigitsLower, ch)
    IN  IF u > 0 THEN u - 1 ELSE l - 1

IsHexDigit(ch) == HexValue(ch) >= 0

RECURSIVE HexNumber(_)
HexNumber(s) ==
    IF s = "" THEN 0
    ELSE 16 * HexNumber(SubSeq(s, 1, Len(s) - 1)) + HexValue(CharAt(s, Len(s)))

\* int(s, 16) for a str of at most two characters: None for ValueError.
\* int() strips whitespace and takes a sign before the digits.
IntBase16(s) ==
    LET t      == strip(s)
        signed == t # "" /\ CharAt(t, 1) \in {"+", "-"}
        digits == IF signed THEN Tail(t) ELSE t
    IN  IF digits = "" \/ \E i \in 1..Len(digits) : ~IsHexDigit(CharAt(digits, i))
        THEN None
        ELSE Some(IF signed /\ CharAt(t, 1) = "-"
                  THEN 0 - HexNumber(digits)
                  ELSE HexNumber(digits))

InvalidHex(hex_color) == Raise("Invalid hex color: " \o repr(hex_color))

_hex_to_rgb(hex_color) ==
    LET h0 == LstripHash(hex_color)
        h  == IF Len(h0) = 3
              THEN CharAt(h0, 1) \o CharAt(h0, 1) \o CharAt(h0, 2) \o CharAt(h0, 2)
                   \o CharAt(h0, 3) \o CharAt(h0, 3)
              ELSE h0
        r  == IntBase16(SubSeq(h, 1, 2))
        g  == IntBase16(SubSeq(h, 3, 4))
        b  == IntBase16(SubSeq(h, 5, 6))
    IN  IF Len(h) # 6 THEN InvalidHex(hex_color)
        ELSE IF IsNone(r) \/ IsNone(g) \/ IsNone(b) THEN InvalidHex(hex_color)
        ELSE Ok(<<Val(r), Val(g), Val(b)>>)

\* _rgb_to_lab (through _linearize, _rgb_to_xyz and _xyz_to_lab) on the sRGB
\* colours of the model, as <<L*, a*, b*>> in hundredths.  The powers 2.4 and
\* 1/3 have no integer form, so the values are tabulated from the formulas.
LabTable ==
    ( <<255, 13, 0>>    :> <<5355, 7919, 6731>> ) @@
    ( <<255, 56, 79>>   :> <<5674, 7345, 3568>> ) @@
    ( <<255, 15, 0>>    :> <<5361, 7902, 6733>> ) @@
    ( <<0, 0, 0>>       :> <<0, 0, 0>> ) @@
    ( <<255, 0, 0>>     :> <<5324, 8009, 6720>> ) @@
    ( <<15, 0, 0>>      :> <<92, 412, 145>> ) @@
    ( <<255, 255, 255>> :> <<10000, 0, 0>> )

_rgb_to_lab(r, g, b) == LabTable[<<r, g, b>>]

\* _cmyk_to_lab: through cmyk_to_rgb (_cmyk_to_xyz), for channels in range.
_cmyk_to_lab(c, m, y, k) ==
    LET rgb == cmyk_to_rgb(c, m, y, k).value
    IN  _rgb_to_lab(rgb.r, rgb.g, rgb.b)

\* The square of sqrt(sum((a - b) ** 2 ...)), which orders as the distance does.
LabDistance2(lab1, lab2) ==
    (lab1[1] - lab2[1]) * (lab1[1] - lab2[1])
    + (lab1[2] - lab2[2]) * (lab1[2] - lab2[2])
    + (lab1[3] - lab2[3]) * (lab1[3] - lab2[3])

-----------------------------------------------------------------------------
(* The datasets and the arguments the model draws.                         *)

MaxDbLen == 5
MaxLimit == 3
DefaultLimit == 5

Entry(name, c, m, y, k) == [name |-> name, c |-> c, m |-> m, y |-> y, k |-> k]

\* Entries a dataset is drawn from: the three variants of 485 and two blacks
\* that render to the same sRGB colour.
Pool ==
    << Entry("Pantone 485 C", 0, 95, 100, 0),
       Entry("Pantone 485 U", 0, 78, 69, 0),
       Entry("Pantone 485 M", 0, 94, 100, 0),
       Entry("Pantone Black C", 0, 0, 0, 100),
       Entry("Pantone Black 6 C", 100, 79, 44, 100) >>

\* An entry whose name differs from "Pantone 485 C" and normalizes to the
\* same key
Twin == Entry("PANTONE 485 C", 0, 78, 69, 0)

\* The three variants of a colour whose name ends in the letter m
Creams ==
    << Entry("Pantone Cream C", 0, 95, 100, 0),
       Entry("Pantone Cream U", 0, 78, 69, 0),
       Entry("Pantone Cream M", 0, 94, 100, 0) >>

\* Every entry of the model: the pool, the twin, the creams
Shelf == Pool \o <<Twin>> \o Creams

PoolEntries == {Shelf[i] : i \in 1..Len(Shelf)}
PoolNames == {e.name : e \in PoolEntries}

Injective(f) == \A i, j \in DOMAIN f : i # j => f[i] # f[j]

\* Every list of at most MaxDbLen entries of the pool, no entry twice (names
\* are unique in the dataset), in every order.
Datasets ==
    { [i \in DOMAIN picks |-> Pool[picks[i]]] :
        picks \in { f \in UNION { [1..n -> 1..Len(Pool)] : n \in 0..MaxDbLen } :
                      Injective(f) } }

\* Every list of at most MaxDbLen entries of the shelf that holds the twin,
\* no entry twice, in every order: datasets in which a key may belong to two
\* entries.
TwinDatasets ==
    { [i \in DOMAIN picks |-> Shelf[picks[i]]] :
        picks \in { f \in UNION { [1..n -> 1..(Len(Pool) + 1)] : n \in 1..MaxDbLen } :
                      Injective(f) /\ \E i \in DOMAIN f : f[i] = Len(Pool) + 1 } }

\* Every list of at most MaxDbLen entries out of the creams and
\* "Pantone 485 C", no entry twice, in every order.
CreamDatasets ==
    { [i \in DOMAIN picks |-> (<<Pool[1]>> \o Creams)[picks[i]]] :
        picks \in { f \in UNION { [1..n -> 1..(Len(Creams) + 1)] : n \in 1..MaxDbLen } :
                      Injective(f) } }

QueryList ==
    << "Pantone 485 C", "pantone 485 c", "485C", "pantone 485", "485 coated",
       "Pantone 485 U", "485 uncoated", "485 matte", "485", "pantone485m",
       " PANTONE  485\tC ", "black", "Black 6", "6", "6 9 7", "black 6 9 7",
       "485 9", "485 a b d e", "Pantone 99999 C", "Pantone\t99999",
       "pantone", "pantone c", "", "cream", "6 black",
       " pantone  485 U", "PANTONE 485 M", "pantone BLACK c",
       "Pantone  Black\t6  C", " \t" >>

Queries == SetOf(QueryList)

HexInputs ==
    { "#FF0000", "#F00", "ff0000", "#000000",
      "#ZZZZZZ", "#FF00", "", "#+F0000" }

\* Complete tuples in range, complete tuples out of range, incomplete ones.
CmykInputs ==
    { <<Some(0), Some(95), Some(100), Some(0)>>,
      <<Some(0), Some(94), Some(100), Some(0)>>,
      <<Some(0), Some(0), Some(0), Some(100)>>,
      <<Some(100), Some(79), Some(44), Some(100)>>,
      <<Some(0), Some(0), Some(0), Some(0)>>,
      <<Some(0), Some(95), Some(100), Some(101)>>,
      <<Some(0 - 1), Some(0), Some(0), Some(0)>>,
      <<Some(0), Some(95), Some(100), None>>,
      <<None, Some(95), None, None>>,
      <<None, Some(101), None, None>> }

NoCmyk == <<None, None, None, None>>

Limits == (0..MaxLimit) \cup {DefaultLimit}

\* Every limit for the targets the ranking is about, the default limit for
\* the rest; then calls that give a hex string and CMYK values at once.
RankedHex == {"#FF0000", "#000000", "#+F0000"}
RankedCmyk ==
    { <<Some(0), Some(95), Some(100), Some(0)>>,
      <<Some(0), Some(94), Some(100), Some(0)>>,
      <<Some(0), Some(0), Some(0), Some(100)>>,
      <<Some(100), Some(79), Some(44), Some(100)>>,
      <<Some(0), Some(0), Some(0), Some(0)>> }

SearchArgs ==
    { [hex_color |-> Some(h), cmyk |-> NoCmyk, limit |-> n] :
        h \in RankedHex, n \in Limits }
    \cup { [hex_color |-> None, cmyk |-> t, limit |-> n] :
             t \in RankedCmyk, n \in Limits }
    \cup { [hex_color |-> Some(h), cmyk |-> NoCmyk, limit |-> DefaultLimit] :
             h \in HexInputs }
    \cup { [hex_color |-> None, cmyk |-> t, limit |-> DefaultLimit] :
             t \in CmykInputs \cup {NoCmyk} }
    \cup { [hex_color |-> Some(h), cmyk |-> t, limit |-> DefaultLimit] :
             h \in {"#F00", "#ZZZZZZ"},
             t \in { <<Some(0), Some(0), Some(0), Some(100)>>,
                     <<Some(0), Some(95), Some(100), Some(101)>>,
                     <<Some(0), Some(95), Some(100), None>> } }

\* Strings given to _hex_to_rgb: both forms in either case, with and without
\* the "#", wrong lengths, characters that are no hexadecimal digits.
HexStrings ==
    { "#FF0000", "#F00", "#f0a", "ff0000", "#Ff00aA", "#000000", "##0F0",
      "#ZZZZZZ", "#GG0000", "#FF00", "#FFFFFFF", "", "#", "#+F0000",
      "#-10000", "# F0000", "#F 0000", "#0x0000", "#F_0000" }

\* CMYK colours given to color_delta_e, in range and out of range.
DeltaArgs ==
    LET valid   == { <<0, 95, 100, 0>>, <<0, 94, 100, 0>>, <<0, 0, 0, 100>>,
                     <<0, 0, 0, 0>>, <<0, 100, 100, 0>>, <<0, 88, 100, 0>>,
                     <<50, 30, 20, 10>>, <<100, 100, 100, 100>> }
        invalid == { <<0, 0, 0, 101>>, <<0 - 1, 0, 0, 0>>, <<0, 200, 0 - 5, 0>> }
    IN  (valid \X valid)
        \cup ({<<0, 0, 0, 0>>} \X invalid)
        \cup (invalid \X {<<0, 0, 0, 0>>, <<0, 0, 0, 101>>})

NumThreads == 2
Threads == 1..NumThreads

SampleCmyk ==
    { <<0, 95, 100, 0>>, <<0, 0, 0, 100>>, <<0, 0, 0, 0>>, <<100, 0, 0, 0>>,
      <<101, 0, 0, 0>>, <<0 - 1, 0, 0, 0>>, <<0, 0, 0, 101>> }

\* Inputs one past each end of the channel range, every (c, k) pair.
GridChannel == (MinChannel - 1)..(MaxChannel + 1)

GridCmyk ==
    { <<c, m, y, k>> : c \in GridChannel, m \in {0, 95, MaxChannel + 1},
                       y \in {MinChannel - 1, 0, 40, 100}, k \in GridChannel }

-----------------------------------------------------------------------------
(* color_delta_e.  A delta_e is kept in hundredths: round(de, 2) * 100.    *)

\* The sRGB colours the CMYK inputs of color_delta_e convert to, and for each
\* pair round(sqrt(dL^2 + da^2 + db^2), 2) of their Lab values, in
\* hundredths, tabulated from the formulas (row and column in the order of
\* DeltaColours).
DeltaColours ==
    << <<255, 13, 0>>,
       <<255, 15, 0>>,
       <<0, 0, 0>>,
       <<255, 255, 255>>,
       <<255, 0, 0>>,
       <<255, 31, 0>>,
       <<115, 161, 184>>,
       <<255, 56, 79>> >>

DeltaERows ==
    << <<0, 18, 11692, 11384, 96, 226, 12272, 3230>>,
       <<18, 0, 11684, 11371, 114, 208, 12260, 3229>>,
       <<11692, 11684, 0, 10000, 11733, 11599, 6669, 9944>>,
       <<11384, 11371, 10000, 0, 11453, 11223, 4101, 9241>>,
       <<96, 114, 11733, 11453, 0, 322, 12332, 3240>>,
       <<226, 208, 11599, 11223, 322, 0, 12132, 3220>>,
       <<12272, 12260, 6669, 4101, 12332, 12132, 0, 9848>>,
       <<3230, 3229, 9944, 9241, 3240, 3220, 9848, 0>> >>

ColourIndex(rgb) == CHOOSE i \in 1..Len(DeltaColours) : DeltaColours[i] = rgb

\* `de = round(math.sqrt(...), 2)` for two CMYK colours in range
RoundedDeltaE(cmyk1, cmyk2) ==
    LET rgb1 == cmyk_to_rgb(cmyk1[1], cmyk1[2], cmyk1[3], cmyk1[4]).value
        rgb2 == cmyk_to_rgb(cmyk2[1], cmyk2[2], cmyk2[3], cmyk2[4]).value
    IN  DeltaERows[ColourIndex(<<rgb1.r, rgb1.g, rgb1.b>>)]
                  [ColourIndex(<<rgb2.r, rgb2.g, rgb2.b>>)]

Interpretation_Unscaled(de) ==
    IF de < 1 THEN "excellent -- imperceptible difference"
    ELSE IF de < 3 THEN "good -- barely perceptible"
    ELSE IF de < 6 THEN "fair -- noticeable difference"
    ELSE "poor -- obvious difference"

\* The bands of the interpretation; the dash of the source text (U+2014) is
\* written "--".
Interpretation(de) ==
    IF de < 100 THEN "excellent -- imperceptible difference"
    ELSE IF de < 300 THEN "good -- barely perceptible"
    ELSE IF de < 600 THEN "fair -- noticeable difference"
    ELSE "poor -- obvious difference"

DeltaNames == <<"c1", "m1", "y1", "k1", "c2", "m2", "y2", "k2">>

color_delta_e(cmyk1, cmyk2) ==
    LET vals == cmyk1 \o cmyk2
        de   == RoundedDeltaE(cmyk1, cmyk2)
    IN  IF \E i \in 1..8 : ~InRange(vals[i])
        THEN LET i == CHOOSE j \in 1..8 :
                          /\ ~InRange(vals[j])
                          /\ \A h \in 1..(j - 1) : InRange(vals[h])
             IN  RangeError(DeltaNames[i], vals[i])
        ELSE Ok([delta_e |-> de, interpretation |-> Interpretation(de)])

-----------------------------------------------------------------------------
(* The database and the two lookups over it.  The functions on strings and *)
(* colours are evaluated once for each name, query and entry of the model. *)

KeyOfName == [name \in PoolNames |-> _normalize_key(name)]

\* The function f restricted to keys[lo..hi], written out entry by entry so
\* that each value is computed once.
RECURSIVE TableOver(_, _, _, _)
TableOver(f, keys, lo, hi) ==
    IF lo > hi THEN <<>>
    ELSE IF lo = hi THEN keys[lo] :> f[keys[lo]]
    ELSE LET mid == (lo + hi) \div 2
         IN  TableOver(f, keys, lo, mid) @@ TableOver(f, keys, mid + 1, hi)

Table(f, keys) == TableOver(f, keys, 1, Len(keys))

CandidatesOf == Table([q \in Queries |-> _expand_query(q)], QueryList)

\* Every (query, entry name) pair, query by query.
ScorePairs ==
    [i \in 1..(Len(QueryList) * Len(Shelf)) |->
        <<QueryList[((i - 1) \div Len(Shelf)) + 1],
          Shelf[((i - 1) % Len(Shelf)) + 1].name>>]

ScoreOf ==
    Table([p \in Queries \X PoolNames |-> _fuzzy_score(p[1], p[2])], ScorePairs)

LabOfEntry == [e \in PoolEntries |-> _cmyk_to_lab(e.c, e.m, e.y, e.k)]

\* The keys of the dict _build_lookup returns.
LookupKeys(db) == {KeyOfName[db[i].name] : i \in 1..Len(db)}

\* A variant that keeps, for equal keys, the value written first.
LookupIndex_FirstWins(db, key) ==
    CHOOSE i \in 1..Len(db) :
        /\ KeyOfName[db[i].name] = key
        /\ \A j \in 1..(i - 1) : KeyOfName[db[j].name] # key

\* The position in db of the entry the dict holds for key: a dict
\* comprehension keeps, for equal keys, the value written last.
LookupIndex(db, key) ==
    CHOOSE i \in 1..Len(db) :
        /\ KeyOfName[db[i].name] = key
        /\ \A j \in (i + 1)..Len(db) : KeyOfName[db[j].name] # key

\* A variant whose keys are the names as they are in the dataset.
_build_lookup_RawNames(db) ==
    [key \in {db[i].name : i \in 1..Len(db)} |->
        db[CHOOSE i \in 1..Len(db) : db[i].name = key]]

_build_lookup(db) == [key \in LookupKeys(db) |-> db[LookupIndex(db, key)]]

\* The dict pantone_to_cmyk and pantone_search build from an entry; the
\* ValueError of cmyk_to_rgb propagates.
MatchResult(entry) ==
    LET rgb == cmyk_to_rgb(entry.c, entry.m, entry.y, entry.k)
    IN  IF ~rgb.ok THEN rgb
        ELSE Ok([name |-> entry.name, c |-> entry.c, m |-> entry.m,
                 y |-> entry.y, k |-> entry.k, hex |-> rgb.value.hex])

MatchOfEntry == [e \in PoolEntries |-> MatchResult(e)]

\* A variant whose loop does not stop at the first hit: the last hit wins.
FirstHit_LastWins(lookup, candidates, i) ==
    LET hits == {j \in i..Len(candidates) : candidates[j] \in DOMAIN lookup}
    IN  IF hits = {} THEN 0 ELSE CHOOSE j \in hits : \A h \in hits : h <= j

\* `for key in candidates: if key in lookup`: the position of the candidate
\* the loop returns at, from position i on; 0 when the loop runs out.
RECURSIVE FirstHit(_, _, _)
FirstHit(lookup, candidates, i) ==
    IF i > Len(candidates) THEN 0
    ELSE IF candidates[i] \in DOMAIN lookup THEN i
    ELSE FirstHit(lookup, candidates, i + 1)

\* A variant comparing with >=: a later entry of equal score replaces the best.
Better_OrEqual(score, best_score) == FracGe(score, best_score)

\* `if score > best_score`
Better(score, best_score) == FracGt(score, best_score)

\* The fallback loop from entry i on: best is (best_score, best_entry), the
\* entry as its position in db, 0 for None.
RECURSIVE FuzzyBest(_, _, _, _)
FuzzyBest(db, pantone_name, i, best) ==
    IF i > Len(db) THEN best
    ELSE LET score == ScoreOf[<<pantone_name, db[i].name>>]
         IN  FuzzyBest(db, pantone_name, i + 1,
                       IF Better(score, best.score)
                       THEN [score |-> score, entry |-> i]
                       ELSE best)

\* A variant with a threshold the substring bonus alone reaches.
FuzzyThreshold_Bonus == Frac(3, 10)

FuzzyThreshold == Frac(1, 2)

\* A variant with a strict threshold: a score of exactly 0.5 is rejected.
Accepted_Strict(best) == best.entry # 0 /\ FracGt(best.score, FuzzyThreshold)

\* `if best_entry and best_score >= 0.5`
Accepted(best) == best.entry # 0 /\ FracGe(best.score, FuzzyThreshold)

UnknownPantone(pantone_name) ==
    Raise("Unknown Pantone color: " \o repr(pantone_name) \o ". "
          \o "Try a format like 'Pantone 485 C', '485C', or '485 coated'.")

UnknownOfQuery == [q \in Queries |-> UnknownPantone(q)]

\* pantone_to_cmyk on the loaded list db: what it returns or raises, and
\* what it did (the keys probed, the entries scored, the path taken).
pantone_to_cmyk(db, pantone_name) ==
    LET lookup     == _build_lookup(db)
        candidates == CandidatesOf[pantone_name]
        hit        == FirstHit(lookup, candidates, 1)
        best       == FuzzyBest(db, pantone_name, 1,
                                [score |-> Frac(0, 1), entry |-> 0])
    IN  IF hit # 0
        THEN [ret   |-> MatchOfEntry[lookup[candidates[hit]]],
              trace |-> [path   |-> "exact",
                         probed |-> SubSeq(candidates, 1, hit),
                         scored |-> <<>>]]
        ELSE [ret   |-> IF Accepted(best)
                        THEN MatchOfEntry[db[best.entry]]
                        ELSE UnknownOfQuery[pantone_name],
              trace |-> [path   |-> IF Accepted(best) THEN "fuzzy" ELSE "unknown",
                         probed |-> candidates,
                         scored |-> [i \in 1..Len(db) |-> db[i].name]]]

\* A variant of the sort that is not stable: equal keys end up reversed.
GoesBefore_Strict(a, b) == a.de < b.de

\* list.sort(key=lambda x: x[0]) is stable: insert x after every element
\* whose key is not greater.
GoesBefore(a, b) == a.de <= b.de

RECURSIVE InsertSorted(_, _)
InsertSorted(sorted, x) ==
    IF sorted = <<>> THEN <<x>>
    ELSE IF GoesBefore(Head(sorted), x)
         THEN <<Head(sorted)>> \o InsertSorted(Tail(sorted), x)
         ELSE <<x>> \o sorted

\* A variant that leaves the list in dataset order.
SortByDistance_Unsorted(scored) == scored

RECURSIVE SortByDistance(_)
SortByDistance(scored) ==
    IF scored = <<>> THEN <<>>
    ELSE InsertSorted(SortByDistance(SubSeq(scored, 1, Len(scored) - 1)),
                      scored[Len(scored)])

\* A variant slicing one short: seq[:limit - 1] for a positive limit.
SliceTo_OneShort(seq, limit) == SubSeq(seq, 1, Min2(Max2(limit - 1, 0), Len(seq)))

\* seq[:limit]
SliceTo(seq, limit) ==
    IF limit >= 0 THEN SubSeq(seq, 1, Min2(limit, Len(seq)))
    ELSE SubSeq(seq, 1, Max2(Len(seq) + limit, 0))

ProvideEither ==
    Raise("Provide either hex_color or all four CMYK values (c, m, y, k).")

\* The first part of pantone_search: the Lab target of the arguments, or
\* the error raised before the database is touched.
SearchTarget(hex_color, c, m, y, k) ==
    IF ~IsNone(hex_color)
    THEN LET rgb == _hex_to_rgb(Val(hex_color))
         IN  IF ~rgb.ok THEN rgb
             ELSE Ok([lab |-> _rgb_to_lab(rgb.value[1], rgb.value[2], rgb.value[3]),
                      search_type |-> <<"hex", Val(hex_color)>>])
    ELSE IF \A v \in {c, m, y, k} : ~IsNone(v)
    THEN LET bad == FirstOutOfRange(<<Val(c), Val(m), Val(y), Val(k)>>)
         IN  IF ~IsNone(bad) THEN Val(bad)
             ELSE Ok([lab |-> _cmyk_to_lab(Val(c), Val(m), Val(y), Val(k)),
                      search_type |-> <<"cmyk", Val(c), Val(m), Val(y), Val(k)>>])
    ELSE ProvideEither

TargetOfArgs ==
    [a \in SearchArgs |->
        SearchTarget(a.hex_color, a.cmyk[1], a.cmyk[2], a.cmyk[3], a.cmyk[4])]

\* The entries of db with their distances to the target, in db order
Scored(db, target_lab) ==
    [i \in 1..Len(db) |->
        [de |-> LabDistance2(target_lab, LabOfEntry[db[i]]), entry |-> db[i]]]

\* The second part of pantone_search, on the loaded list db.
RankedMatches(db, target, limit) ==
    LET top == SliceTo(SortByDistance(Scored(db, target.lab)), limit)
    IN  [ret   |-> Ok([matches     |-> [i \in 1..Len(top) |->
                                           MatchOfEntry[top[i].entry].value],
                       search_type |-> target.search_type]),
         trace |-> [path      |-> "search",
                    distances |-> [i \in 1..Len(top) |-> top[i].de]]]

-----------------------------------------------------------------------------
(* spot.py: spot_color_separator.  A threshold is kept in hundredths, as a
   delta_e is.                                                              *)

\* float("inf")
inf == 2147483647

\* str() of a float given in hundredths: "5.0", "0.18", "-1.0", "inf"
FloatStr(h) ==
    LET a    == IF h < 0 THEN 0 - h ELSE h
        frac == a % 100
    IN  IF h = inf THEN "inf"
        ELSE (IF h < 0 THEN "-" ELSE "") \o NatToStr(a \div 100) \o "."
             \o NatToStr(frac \div 10)
             \o (IF frac % 10 = 0 THEN "" ELSE NatToStr(frac % 10))

\* A variant comparing with <=: a later entry at equal distance replaces the best.
Closer_OrEqual(de, best_de) == de <= best_de

\* `if de < best_de`
Closer(de, best_de) == de < best_de

\* The loop of _find_nearest_pantone from entry i on; best.entry is 0 while
\* best_name is "".
RECURSIVE NearestFrom(_, _, _, _)
NearestFrom(db, target_lab, i, best) ==
    IF i > Len(db) THEN best
    ELSE LET de == LabDistance2(target_lab, LabOfEntry[db[i]])
         IN  NearestFrom(db, target_lab, i + 1,
                         IF Closer(de, best.de) THEN [entry |-> i, de |-> de]
                         ELSE best)

\* best_name and round(best_de, 2) for the entry the loop ended on
NearestResult(db, cmyk, entry) ==
    IF entry = 0 THEN [name |-> "", de |-> inf]
    ELSE [name |-> db[entry].name,
          de   |-> RoundedDeltaE(cmyk, <<db[entry].c, db[entry].m,
                                         db[entry].y, db[entry].k>>)]

_find_nearest_pantone(db, cmyk) ==
    NearestResult(db, cmyk,
                  NearestFrom(db, _cmyk_to_lab(cmyk[1], cmyk[2], cmyk[3], cmyk[4]),
                              1, [entry |-> 0, de |-> inf]).entry)

\* color.get(key, 0) for the four keys of a colour given as options
GetChannels(color) == [i \in 1..4 |-> IF IsNone(color[i]) THEN 0 ELSE Val(color[i])]

\* The entry built for a colour in range whose nearest entry is near, with
\* its reason
SpotColorEntry(cmyk, near, threshold) ==
    [color  |-> [c |-> cmyk[1], m |-> cmyk[2], y |-> cmyk[3], k |-> cmyk[4]],
     hex    |-> cmyk_to_rgb(cmyk[1], cmyk[2], cmyk[3], cmyk[4]).value.hex,
     nearest_pantone |-> near.name,
     delta_e |-> near.de,
     reason |-> IF near.de <= threshold
                THEN "Close match to " \o near.name \o " (Delta E = "
                     \o FloatStr(near.de)
                     \o "). Use as spot color for best accuracy."
                ELSE "No close Pantone match (nearest: " \o near.name
                     \o ", Delta E = " \o FloatStr(near.de)
                     \o "). Reproduce as process (CMYK) color."]

\* The result of n colours put into the lists spot and process
SpotSeparatorResult(n, threshold, spot, process) ==
    [spot_colors    |-> spot,
     process_colors |-> process,
     reasoning      |->
         "Analyzed " \o NatToStr(n) \o " colors with Delta E threshold "
         \o FloatStr(threshold) \o ". "
         \o NatToStr(Len(spot)) \o " recommended as spot colors, "
         \o NatToStr(Len(process)) \o " as process colors. "
         \o "Spot colors have a close Pantone match and will be more consistent across "
         \o "print runs. Process colors are better served by standard CMYK mixing."]

\* spot_color_separator on the database db: its result, and how many colours
\* it took through _find_nearest_pantone (each a call of _load_db) before
\* it returned or raised.
spot_color_separator(db, colors, threshold) ==
    LET n       == Len(colors)
        chans   == [i \in 1..n |-> GetChannels(colors[i])]
        bad     == {i \in 1..n : \E j \in 1..4 : ~InRange(chans[i][j])}
        i0      == CHOOSE i \in bad : \A h \in bad : i <= h
        j0      == CHOOSE j \in 1..4 :
                       /\ ~InRange(chans[i0][j])
                       /\ \A h \in 1..(j - 1) : InRange(chans[i0][h])
        entries == [i \in 1..n |->
                       SpotColorEntry(chans[i], _find_nearest_pantone(db, chans[i]),
                                      threshold)]
        IsSpot(entry) == entry.delta_e <= threshold
        IsProcess(entry) == ~IsSpot(entry)
    IN  IF n = 0
        THEN [ret |-> Raise("colors list must not be empty"), nearest |-> 0]
        ELSE IF threshold <= 0
        THEN [ret |-> Raise("threshold must be positive, got " \o FloatStr(threshold)),
              nearest |-> 0]
        ELSE IF bad # {}
        THEN [ret |-> Raise("Color " \o NatToStr(i0 - 1) \o ": " \o ChannelNames[j0]
                            \o " must be 0-100, got " \o IntToStr(chans[i0][j0])),
              nearest |-> i0 - 1]
        ELSE [ret |-> Ok(SpotSeparatorResult(n, threshold,
                                             SelectSeq(entries, IsSpot),
                                             SelectSeq(entries, IsProcess))),
              nearest |-> n]

\* Colours and thresholds given to spot_color_separator: colours at and near
\* entries of the pool, white, one out of range, one without its k; the
\* default threshold 5.0, the delta_e 0.18 between 485 C and 485 M, 0 and -1.
SpotArgs ==
    LET colour == << <<Some(0), Some(95), Some(100), Some(0)>>,
                     <<Some(0), Some(94), Some(100), Some(0)>>,
                     <<Some(0), Some(0), Some(0), Some(0)>>,
                     <<Some(0), Some(95), Some(100), None>>,
                     <<Some(0), Some(0), Some(0), Some(101)>> >>
        lists  == { <<colour[i]>> : i \in 1..5 }
                  \cup { <<colour[p[1]], colour[p[2]]>> :
                           p \in { <<1, 2>>, <<2, 1>>, <<3, 1>>, <<2, 2>>,
                                   <<1, 5>>, <<5, 1>> } }
    IN  { [colors |-> colors, threshold |-> threshold] :
            colors \in lists, threshold \in {500, 18} }
        \cup { [colors |-> <<>>, threshold |-> 500],
               [colors |-> <<>>, threshold |-> 0],
               [colors |-> <<colour[1]>>, threshold |-> 0],
               [colors |-> <<colour[5]>>, threshold |-> 0 - 100] }

-----------------------------------------------------------------------------
(* preflight.py: preflight_check.  Resolutions, sizes and the ink coverage
   are integers; a minimum bleed is kept in hundredths of a millimetre.     *)

RECURSIVE upper(_)
upper(s) == IF s = "" THEN "" ELSE UpperChar(CharAt(s, 1)) \o upper(Tail(s))

_VALID_METHODS == {"offset", "digital", "flexo", "gravure", "screen"}
_VALID_COLOR_MODES == {"cmyk", "rgb", "grayscale", "spot"}
_CMYK_REQUIRED_METHODS == {"offset", "flexo", "gravure", "screen"}

_MIN_DPI ==
    [method \in _VALID_METHODS |->
        IF method = "digital" THEN 150 ELSE IF method = "screen" THEN 200 ELSE 300]

_MIN_BLEED_MM ==
    [method \in _VALID_METHODS |->
        IF method \in {"digital", "screen"} THEN 200 ELSE 300]

CheckResult(name, status, message) ==
    [name |-> name, status |-> status, message |-> message]

_check_color_mode(color_mode, target_method) ==
    IF color_mode = "grayscale"
    THEN CheckResult("color_mode", "pass", "Grayscale is acceptable for all methods.")
    ELSE IF target_method \in _CMYK_REQUIRED_METHODS
    THEN IF color_mode \in {"cmyk", "spot"}
         THEN CheckResult("color_mode", "pass",
                          upper(color_mode) \o " is correct for " \o target_method \o ".")
         ELSE CheckResult("color_mode", "fail",
                          upper(color_mode) \o " is not suitable for " \o target_method
                          \o "; convert to CMYK.")
    ELSE IF color_mode = "rgb"
    THEN CheckResult("color_mode", "warning",
                     "RGB can work for digital but CMYK is preferred for color accuracy.")
    ELSE CheckResult("color_mode", "pass",
                     upper(color_mode) \o " is correct for " \o target_method \o ".")

\* resolution_dpi >= min_dpi * 0.75 is 4 * resolution_dpi >= 3 * min_dpi
ResolutionStatus(resolution_dpi, min_dpi) ==
    IF resolution_dpi >= min_dpi THEN "pass"
    ELSE IF 4 * resolution_dpi >= 3 * min_dpi THEN "warning"
    ELSE "fail"

ResolutionMessage(status, dpi, min_dpi, target_method) ==
    IF status = "pass"
    THEN dpi \o " DPI meets the minimum of " \o min_dpi \o " DPI for "
         \o target_method \o "."
    ELSE IF status = "warning"
    THEN dpi \o " DPI is below the recommended " \o min_dpi \o " DPI for "
         \o target_method \o "; may appear soft."
    ELSE dpi \o " DPI is too low for " \o target_method \o " (minimum "
         \o min_dpi \o " DPI)."

_check_resolution(resolution_dpi, target_method) ==
    CheckResult("resolution",
                ResolutionStatus(resolution_dpi, _MIN_DPI[target_method]),
                ResolutionMessage(ResolutionStatus(resolution_dpi, _MIN_DPI[target_method]),
                                  IntToStr(resolution_dpi),
                                  IntToStr(_MIN_DPI[target_method]), target_method))

BleedResult(has_bleed, enough, bleed, min_bleed, target_method) ==
    IF ~has_bleed
    THEN CheckResult("bleed", "fail",
                     "No bleed detected; " \o target_method \o " requires at least "
                     \o min_bleed \o " mm bleed.")
    ELSE IF enough
    THEN CheckResult("bleed", "pass",
                     bleed \o " mm bleed meets the " \o min_bleed
                     \o " mm minimum for " \o target_method \o ".")
    ELSE CheckResult("bleed", "warning",
                     bleed \o " mm bleed is below the recommended " \o min_bleed
                     \o " mm for " \o target_method \o ".")

_check_bleed(has_bleed, bleed_mm, target_method) ==
    BleedResult(has_bleed, 100 * bleed_mm >= _MIN_BLEED_MM[target_method],
                IntToStr(bleed_mm), FloatStr(_MIN_BLEED_MM[target_method]),
                target_method)

_check_fonts(fonts_embedded) ==
    IF fonts_embedded
    THEN CheckResult("fonts", "pass", "All fonts are embedded.")
    ELSE CheckResult("fonts", "fail",
                     "Fonts are not embedded; this will cause text rendering issues.")

InkResult(total_ink_coverage_percent, percent) ==
    IF total_ink_coverage_percent <= 300
    THEN CheckResult("ink_coverage", "pass",
                     "Total ink coverage " \o percent \o "% is within safe limits.")
    ELSE IF total_ink_coverage_percent <= 340
    THEN CheckResult("ink_coverage", "warning",
                     "Total ink coverage " \o percent
                     \o "% exceeds 300%; may cause drying issues.")
    ELSE CheckResult("ink_coverage", "fail",
                     "Total ink coverage " \o percent
                     \o "% exceeds 340%; risk of smearing and set-off.")

_check_ink_coverage(total_ink_coverage_percent) ==
    InkResult(total_ink_coverage_percent, IntToStr(total_ink_coverage_percent))

_check_transparency(has_transparency) ==
    IF ~has_transparency
    THEN CheckResult("transparency", "pass", "No transparency detected.")
    ELSE CheckResult("transparency", "warning",
                     "File contains transparency; flatten before sending to press to avoid rendering issues.")

\* statuses.count(status)
CountStatus(checks, status) ==
    Cardinality({i \in 1..Len(checks) : checks[i].status = status})

\* ', '.join of the names of the failed checks from check i on
RECURSIVE FailedNames(_, _)
FailedNames(checks, i) ==
    IF i > Len(checks) THEN ""
    ELSE IF checks[i].status # "fail" THEN FailedNames(checks, i + 1)
    ELSE IF FailedNames(checks, i + 1) = "" THEN checks[i].name
    ELSE checks[i].name \o ", " \o FailedNames(checks, i + 1)

\* The result for the six checks run, whose worst status is overall
PreflightResult(checks, overall) ==
    [status  |-> overall,
     checks  |-> checks,
     summary |-> NatToStr(CountStatus(checks, "pass")) \o " passed, "
                 \o NatToStr(CountStatus(checks, "warning")) \o " warnings, "
                 \o NatToStr(CountStatus(checks, "fail")) \o " failed out of "
                 \o NatToStr(Len(checks)) \o " checks.",
     recommendation |->
         IF overall = "pass" THEN "File is ready for production."
         ELSE IF overall = "warning" THEN "Review warnings before sending to press."
         ELSE "Fix failed checks before production: " \o FailedNames(checks, 1) \o "."]

WorstStatus_WarningFirst(checks) ==
    IF CountStatus(checks, "warning") > 0 THEN "warning"
    ELSE IF CountStatus(checks, "fail") > 0 THEN "fail"
    ELSE "pass"

\* `if "fail" in statuses ... elif "warning" in statuses ... else`
WorstStatus(checks) ==
    IF CountStatus(checks, "fail") > 0 THEN "fail"
    ELSE IF CountStatus(checks, "warning") > 0 THEN "warning"
    ELSE "pass"

\* The list of checks, in the order they are run
RunChecks(a, color_mode, target_method) ==
    << _check_color_mode(color_mode, target_method),
       _check_resolution(a.resolution_dpi, target_method),
       _check_bleed(a.has_bleed, a.bleed_mm, target_method),
       _check_fonts(a.fonts_embedded),
       _check_ink_coverage(a.total_ink_coverage_percent),
       _check_transparency(a.has_transparency) >>

MustBe(what, got, bound) == Raise(what \o " must be " \o bound \o ", got " \o IntToStr(got) \o ".")

\* preflight_check with the keyword arguments a; target_method and
\* color_mode are the lower-cased ones
Validated(a, color_mode, target_method, checks) ==
    IF target_method \notin _VALID_METHODS
    THEN Raise("Invalid target_method: " \o repr(target_method)
               \o ". Must be one of ['digital', 'flexo', 'gravure', 'offset', 'screen'].")
    ELSE IF color_mode \notin _VALID_COLOR_MODES
    THEN Raise("Invalid color_mode: " \o repr(color_mode)
               \o ". Must be one of ['cmyk', 'grayscale', 'rgb', 'spot'].")
    ELSE IF a.resolution_dpi <= 0
    THEN MustBe("resolution_dpi", a.resolution_dpi, "positive")
    ELSE IF a.width_mm <= 0 THEN MustBe("width_mm", a.width_mm, "positive")
    ELSE IF a.height_mm <= 0 THEN MustBe("height_mm", a.height_mm, "positive")
    ELSE IF a.bleed_mm < 0 THEN MustBe("bleed_mm", a.bleed_mm, "non-negative")
    ELSE IF a.total_ink_coverage_percent < 0
    THEN MustBe("total_ink_coverage_percent", a.total_ink_coverage_percent,
                "non-negative")
    ELSE Ok(PreflightResult(checks, WorstStatus(checks)))

preflight_check(a) ==
    Validated(a, lower(a.color_mode), lower(a.target_method),
              RunChecks(a, lower(a.color_mode), lower(a.target_method)))

\* Arguments given to preflight_check: every mix of modes, methods,
\* resolutions around the limits, bleed, fonts, ink coverage around 300 and
\* 340 and transparency for an A4 page; then one invalid value at a time.
PreflightArgs ==
    LET valid == [color_mode : {"cmyk", "RGB", "grayscale", "spot"},
                  target_method : {"offset", "digital", "Flexo", "screen"},
                  resolution_dpi : {112, 113, 150, 225, 300},
                  has_bleed : BOOLEAN,
                  bleed_mm : {2, 3},
                  fonts_embedded : BOOLEAN,
                  total_ink_coverage_percent : {300, 340, 341},
                  has_transparency : BOOLEAN,
                  width_mm : {210},
                  height_mm : {297}]
        good  == [color_mode |-> "cmyk", target_method |-> "gravure",
                  resolution_dpi |-> 300, has_bleed |-> TRUE, bleed_mm |-> 3,
                  fonts_embedded |-> TRUE, total_ink_coverage_percent |-> 280,
                  has_transparency |-> FALSE, width_mm |-> 210, height_mm |-> 297]
    IN  valid
        \cup { good,
               [good EXCEPT !.target_method = "litho"],
               [good EXCEPT !.color_mode = "lab"],
               [good EXCEPT !.resolution_dpi = 0],
               [good EXCEPT !.width_mm = 0],
               [good EXCEPT !.height_mm = 0 - 1],
               [good EXCEPT !.bleed_mm = 0 - 1],
               [good EXCEPT !.total_ink_coverage_percent = 0 - 1],
               [good EXCEPT !.bleed_mm = 0 - 1, !.width_mm = 0] }

-----------------------------------------------------------------------------
(* substrate.py: substrate_simulator.  The channels given are integers.  A
   channel on its way through dot gain, absorption and tint is kept in
   1/10000, where it is exact; a simulated channel, rounded to one decimal,
   in tenths; an absorption and a Delta E in hundredths.                    *)

Profile(offset, digital, flexo, absorption, whiteness, tint) ==
    [dot_gain   |-> [offset |-> offset, digital |-> digital, flexo |-> flexo],
     absorption |-> absorption,
     whiteness  |-> whiteness,
     tint       |-> [c |-> tint[1], m |-> tint[2], y |-> tint[3], k |-> tint[4]]]

_SUBSTRATES ==
    [glossy_coated |-> Profile(12, 5, 15, 2, 95, <<0, 0, 0, 0>>),
     matte_coated  |-> Profile(18, 8, 20, 5, 92, <<0, 0, 1, 0>>),
     uncoated      |-> Profile(22, 12, 25, 10, 88, <<0, 1, 2, 0>>),
     newsprint     |-> Profile(30, 18, 35, 18, 72, <<0, 2, 5, 3>>),
     kraft         |-> Profile(25, 15, 30, 15, 55, <<0, 6, 15, 8>>),
     recycled      |-> Profile(25, 14, 28, 12, 78, <<0, 1, 3, 2>>)]

\* _VALID_METHODS of substrate.py
substrate_VALID_METHODS == {"offset", "digital", "flexo"}

\* value + (gain_percent / 100) * value * (1 - value / 100), in 1/10000
_apply_dot_gain(value, gain_percent) ==
    10000 * value + gain_percent * value * (100 - value)

substrate_clamp_Unclamped(value) == value

\* _clamp of substrate.py with its defaults lo = 0.0 and hi = 100.0, in 1/10000
substrate_clamp(value) == Max2(0, Min2(1000000, value))

\* The values, in 1/10000, exactly halfway between two tenths for which the
\* double computed by the code rounds up; at the other halfway values met
\* (122500, 212500, 250500, 331500, 362500, 391500, 412500, 512500, 522500, 562500, 572500, 582500, 592500, 612500, 622500, 642500, 692500, 712500) it rounds down.
TenthHalfwayRoundsUp == {131500, 310500, 323500, 328500, 337500, 393500, 537500, 547500, 587500, 597500, 607500, 637500, 687500, 707500, 717500, 959500, 969500}

\* round(x, 1) of x in 1/10000, in tenths
RoundTenth(x) ==
    IF x % 1000 < 500 THEN x \div 1000
    ELSE IF x % 1000 > 500 THEN (x \div 1000) + 1
    ELSE IF x \in TenthHalfwayRoundsUp THEN (x \div 1000) + 1
    ELSE x \div 1000

\* c_new, m_new, y_new, k_new after the three steps, the clamp and the
\* rounding; absorption_k is profile["absorption"] * (100 - k)
SimulatedChannels(cmyk, gain, absorption_k, tint) ==
    << RoundTenth(substrate_clamp(_apply_dot_gain(cmyk[1], gain) + 10000 * tint.c)),
       RoundTenth(substrate_clamp(_apply_dot_gain(cmyk[2], gain) + 10000 * tint.m)),
       RoundTenth(substrate_clamp(_apply_dot_gain(cmyk[3], gain) + 10000 * tint.y)),
       RoundTenth(substrate_clamp(_apply_dot_gain(cmyk[4], gain) + 100 * absorption_k
                                  + 10000 * tint.k)) >>

\* For each pair of a colour given and its simulated channels (in tenths):
\* cmyk_to_rgb(simulated)["hex"] and color_delta_e(given, simulated)["delta_e"]
\* in hundredths, tabulated from colors.py.
SimulatedTable ==
    { << <<0, 0, 0, 0>>, <<0, 0, 0, 20>>, "#FAFAFA", 173 >>,
      << <<0, 0, 0, 0>>, <<0, 0, 10, 50>>, "#F2F2F0", 467 >>,
      << <<0, 0, 0, 0>>, <<0, 10, 20, 100>>, "#E6E3E1", 970 >>,
      << <<0, 0, 0, 0>>, <<0, 10, 30, 140>>, "#DBD9D5", 1344 >>,
      << <<0, 0, 0, 0>>, <<0, 20, 50, 210>>, "#C9C5BF", 2062 >>,
      << <<0, 0, 0, 0>>, <<0, 60, 150, 230>>, "#C4B9A7", 2660 >>,
      << <<0, 0, 0, 50>>, <<0, 0, 0, 522>>, "#7A7A7A", 236 >>,
      << <<0, 0, 0, 50>>, <<0, 0, 0, 540>>, "#757575", 435 >>,
      << <<0, 0, 0, 50>>, <<0, 0, 0, 548>>, "#737373", 514 >>,
      << <<0, 0, 0, 50>>, <<0, 0, 10, 545>>, "#747473", 481 >>,
      << <<0, 0, 0, 50>>, <<0, 0, 10, 570>>, "#6E6E6D", 720 >>,
      << <<0, 0, 0, 50>>, <<0, 0, 10, 575>>, "#6C6C6B", 801 >>,
      << <<0, 0, 0, 50>>, <<0, 10, 20, 580>>, "#6B6A69", 874 >>,
      << <<0, 0, 0, 50>>, <<0, 10, 20, 605>>, "#656463", 1118 >>,
      << <<0, 0, 0, 50>>, <<0, 10, 20, 612>>, "#636261", 1199 >>,
      << <<0, 0, 0, 50>>, <<0, 10, 30, 615>>, "#62615F", 1248 >>,
      << <<0, 0, 0, 50>>, <<0, 10, 30, 642>>, "#5B5A59", 1530 >>,
      << <<0, 0, 0, 50>>, <<0, 10, 30, 650>>, "#595857", 1614 >>,
      << <<0, 0, 0, 50>>, <<0, 20, 50, 665>>, "#555451", 1796 >>,
      << <<0, 0, 0, 50>>, <<0, 20, 50, 695>>, "#4E4C4A", 2120 >>,
      << <<0, 0, 0, 50>>, <<0, 20, 50, 708>>, "#4A4947", 2257 >>,
      << <<0, 0, 0, 50>>, <<0, 60, 150, 692>>, "#4F4A43", 2242 >>,
      << <<0, 0, 0, 50>>, <<0, 60, 150, 718>>, "#48443D", 2503 >>,
      << <<0, 0, 0, 50>>, <<0, 60, 150, 730>>, "#45413B", 2620 >>,
      << <<0, 0, 0, 100>>, <<0, 0, 0, 1000>>, "#000000", 0 >>,
      << <<0, 0, 0, 100>>, <<0, 0, 10, 1000>>, "#000000", 0 >>,
      << <<0, 0, 0, 100>>, <<0, 10, 20, 1000>>, "#000000", 0 >>,
      << <<0, 0, 0, 100>>, <<0, 10, 30, 1000>>, "#000000", 0 >>,
      << <<0, 0, 0, 100>>, <<0, 20, 50, 1000>>, "#000000", 0 >>,
      << <<0, 0, 0, 100>>, <<0, 60, 150, 1000>>, "#000000", 0 >>,
      << <<0, 0, 50, 0>>, <<0, 0, 512, 20>>, "#FAFA7A", 183 >>,
      << <<0, 0, 50, 0>>, <<0, 0, 530, 20>>, "#FAFA75", 330 >>,
      << <<0, 0, 50, 0>>, <<0, 0, 530, 50>>, "#F2F272", 456 >>,
      << <<0, 0, 50, 0>>, <<0, 0, 538, 20>>, "#FAFA73", 407 >>,
      << <<0, 0, 50, 0>>, <<0, 0, 555, 50>>, "#F2F26C", 568 >>,
      << <<0, 0, 50, 0>>, <<0, 0, 560, 50>>, "#F2F26B", 595 >>,
      << <<0, 0, 50, 0>>, <<0, 10, 550, 100>>, "#E6E367", 961 >>,
      << <<0, 0, 50, 0>>, <<0, 10, 565, 140>>, "#DBD95F", 1316 >>,
      << <<0, 0, 50, 0>>, <<0, 10, 575, 100>>, "#E6E362", 979 >>,
      << <<0, 0, 50, 0>>, <<0, 10, 582, 100>>, "#E6E360", 999 >>,
      << <<0, 0, 50, 0>>, <<0, 10, 592, 140>>, "#DBD959", 1323 >>,
      << <<0, 0, 50, 0>>, <<0, 10, 600, 140>>, "#DBD958", 1329 >>,
      << <<0, 0, 50, 0>>, <<0, 20, 595, 210>>, "#C9C552", 2046 >>,
      << <<0, 0, 50, 0>>, <<0, 20, 625, 210>>, "#C9C54C", 2020 >>,
      << <<0, 0, 50, 0>>, <<0, 20, 638, 210>>, "#C9C549", 2019 >>,
      << <<0, 0, 50, 0>>, <<0, 60, 688, 230>>, "#C4B93D", 2453 >>,
      << <<0, 0, 50, 0>>, <<0, 60, 712, 230>>, "#C4B939", 2463 >>,
      << <<0, 0, 50, 0>>, <<0, 60, 725, 230>>, "#C4B936", 2476 >>,
      << <<0, 0, 50, 50>>, <<0, 0, 512, 522>>, "#7A7A3B", 236 >>,
      << <<0, 0, 50, 50>>, <<0, 0, 530, 540>>, "#757537", 436 >>,
      << <<0, 0, 50, 50>>, <<0, 0, 530, 545>>, "#747437", 484 >>,
      << <<0, 0, 50, 50>>, <<0, 0, 538, 548>>, "#737335", 514 >>,
      << <<0, 0, 50, 50>>, <<0, 0, 555, 570>>, "#6E6E31", 716 >>,
      << <<0, 0, 50, 50>>, <<0, 0, 560, 575>>, "#6C6C30", 801 >>,
      << <<0, 0, 50, 50>>, <<0, 10, 550, 580>>, "#6B6A30", 893 >>,
      << <<0, 0, 50, 50>>, <<0, 10, 565, 615>>, "#62612B", 1292 >>,
      << <<0, 0, 50, 50>>, <<0, 10, 575, 605>>, "#65642B", 1136 >>,
      << <<0, 0, 50, 50>>, <<0, 10, 582, 612>>, "#636229", 1214 >>,
      << <<0, 0, 50, 50>>, <<0, 10, 592, 642>>, "#5B5A25", 1575 >>,
      << <<0, 0, 50, 50>>, <<0, 10, 600, 650>>, "#595824", 1667 >>,
      << <<0, 0, 50, 50>>, <<0, 20, 595, 665>>, "#555423", 1870 >>,
      << <<0, 0, 50, 50>>, <<0, 20, 625, 695>>, "#4E4C1D", 2208 >>,
      << <<0, 0, 50, 50>>, <<0, 20, 638, 708>>, "#4A491B", 2350 >>,
      << <<0, 0, 50, 50>>, <<0, 60, 688, 692>>, "#4F4A19", 2247 >>,
      << <<0, 0, 50, 50>>, <<0, 60, 712, 718>>, "#484415", 2521 >>,
      << <<0, 0, 50, 50>>, <<0, 60, 725, 730>>, "#454113", 2659 >>,
      << <<0, 0, 50, 100>>, <<0, 0, 512, 1000>>, "#000000", 0 >>,
      << <<0, 0, 50, 100>>, <<0, 0, 530, 1000>>, "#000000", 0 >>,
      << <<0, 0, 50, 100>>, <<0, 0, 538, 1000>>, "#000000", 0 >>,
      << <<0, 0, 50, 100>>, <<0, 0, 555, 1000>>, "#000000", 0 >>,
      << <<0, 0, 50, 100>>, <<0, 0, 560, 1000>>, "#000000", 0 >>,
      << <<0, 0, 50, 100>>, <<0, 10, 550, 1000>>, "#000000", 0 >>,
      << <<0, 0, 50, 100>>, <<0, 10, 565, 1000>>, "#000000", 0 >>,
      << <<0, 0, 50, 100>>, <<0, 10, 575, 1000>>, "#000000", 0 >>,
      << <<0, 0, 50, 100>>, <<0, 10, 582, 1000>>, "#000000", 0 >>,
      << <<0, 0, 50, 100>>, <<0, 10, 592, 1000>>, "#000000", 0 >>,
      << <<0, 0, 50, 100>>, <<0, 10, 600, 1000>>, "#000000", 0 >>,
      << <<0, 0, 50, 100>>, <<0, 20, 595, 1000>>, "#000000", 0 >>,
      << <<0, 0, 50, 100>>, <<0, 20, 625, 1000>>, "#000000", 0 >>,
      << <<0, 0, 50, 100>>, <<0, 20, 638, 1000>>, "#000000", 0 >>,
      << <<0, 0, 50, 100>>, <<0, 60, 688, 1000>>, "#000000", 0 >>,
      << <<0, 0, 50, 100>>, <<0, 60, 712, 1000>>, "#000000", 0 >>,
      << <<0, 0, 50, 100>>, <<0, 60, 725, 1000>>, "#000000", 0 >>,
      << <<0, 0, 100, 0>>, <<0, 0, 1000, 20>>, "#FAFA00", 222 >>,
      << <<0, 0, 100, 0>>, <<0, 0, 1000, 50>>, "#F2F200", 579 >>,
      << <<0, 0, 100, 0>>, <<0, 10, 1000, 100>>, "#E6E300", 1243 >>,
      << <<0, 0, 100, 0>>, <<0, 10, 1000, 140>>, "#DBD900", 1699 >>,
      << <<0, 0, 100, 0>>, <<0, 20, 1000, 210>>, "#C9C500", 2612 >>,
      << <<0, 0, 100, 0>>, <<0, 60, 1000, 230>>, "#C4B900", 3160 >>,
      << <<0, 0, 100, 50>>, <<0, 0, 1000, 522>>, "#7A7A00", 303 >>,
      << <<0, 0, 100, 50>>, <<0, 0, 1000, 540>>, "#757500", 558 >>,
      << <<0, 0, 100, 50>>, <<0, 0, 1000, 545>>, "#747400", 609 >>,
      << <<0, 0, 100, 50>>, <<0, 0, 1000, 548>>, "#737300", 661 >>,
      << <<0, 0, 100, 50>>, <<0, 0, 1000, 570>>, "#6E6E00", 918 >>,
      << <<0, 0, 100, 50>>, <<0, 0, 1000, 575>>, "#6C6C00", 1022 >>,
      << <<0, 0, 100, 50>>, <<0, 10, 1000, 580>>, "#6B6A00", 1120 >>,
      << <<0, 0, 100, 50>>, <<0, 10, 1000, 605>>, "#656400", 1434 >>,
      << <<0, 0, 100, 50>>, <<0, 10, 1000, 612>>, "#636200", 1539 >>,
      << <<0, 0, 100, 50>>, <<0, 10, 1000, 615>>, "#626100", 1592 >>,
      << <<0, 0, 100, 50>>, <<0, 10, 1000, 642>>, "#5B5A00", 1964 >>,
      << <<0, 0, 100, 50>>, <<0, 10, 1000, 650>>, "#595800", 2071 >>,
      << <<0, 0, 100, 50>>, <<0, 20, 1000, 665>>, "#555400", 2287 >>,
      << <<0, 0, 100, 50>>, <<0, 20, 1000, 695>>, "#4E4C00", 2719 >>,
      << <<0, 0, 100, 50>>, <<0, 20, 1000, 708>>, "#4A4900", 2891 >>,
      << <<0, 0, 100, 50>>, <<0, 60, 1000, 692>>, "#4F4A00", 2817 >>,
      << <<0, 0, 100, 50>>, <<0, 60, 1000, 718>>, "#484400", 3161 >>,
      << <<0, 0, 100, 50>>, <<0, 60, 1000, 730>>, "#454100", 3339 >>,
      << <<0, 0, 100, 100>>, <<0, 0, 1000, 1000>>, "#000000", 0 >>,
      << <<0, 0, 100, 100>>, <<0, 10, 1000, 1000>>, "#000000", 0 >>,
      << <<0, 0, 100, 100>>, <<0, 20, 1000, 1000>>, "#000000", 0 >>,
      << <<0, 0, 100, 100>>, <<0, 60, 1000, 1000>>, "#000000", 0 >>,
      << <<0, 50, 0, 0>>, <<0, 512, 0, 20>>, "#FA7AFA", 200 >>,
      << <<0, 50, 0, 0>>, <<0, 520, 10, 50>>, "#F274F0", 459 >>,
      << <<0, 50, 0, 0>>, <<0, 530, 0, 20>>, "#FA75FA", 427 >>,
      << <<0, 50, 0, 0>>, <<0, 538, 0, 20>>, "#FA73FA", 528 >>,
      << <<0, 50, 0, 0>>, <<0, 540, 20, 100>>, "#E66AE1", 911 >>,
      << <<0, 50, 0, 0>>, <<0, 545, 10, 50>>, "#F26EF0", 586 >>,
      << <<0, 50, 0, 0>>, <<0, 545, 30, 140>>, "#DB64D5", 1308 >>,
      << <<0, 50, 0, 0>>, <<0, 550, 10, 50>>, "#F26DF0", 621 >>,
      << <<0, 50, 0, 0>>, <<0, 565, 20, 100>>, "#E664E1", 955 >>,
      << <<0, 50, 0, 0>>, <<0, 565, 50, 210>>, "#C958BF", 2031 >>,
      << <<0, 50, 0, 0>>, <<0, 572, 20, 100>>, "#E662E1", 992 >>,
      << <<0, 50, 0, 0>>, <<0, 572, 30, 140>>, "#DB5ED5", 1295 >>,
      << <<0, 50, 0, 0>>, <<0, 580, 30, 140>>, "#DB5CD5", 1308 >>,
      << <<0, 50, 0, 0>>, <<0, 595, 50, 210>>, "#C952BF", 1980 >>,
      << <<0, 50, 0, 0>>, <<0, 598, 150, 230>>, "#C44FA7", 2799 >>,
      << <<0, 50, 0, 0>>, <<0, 608, 50, 210>>, "#C94FBF", 1974 >>,
      << <<0, 50, 0, 0>>, <<0, 622, 150, 230>>, "#C44AA7", 2728 >>,
      << <<0, 50, 0, 0>>, <<0, 635, 150, 230>>, "#C448A7", 2706 >>,
      << <<0, 50, 0, 50>>, <<0, 512, 0, 522>>, "#7A3B7A", 221 >>,
      << <<0, 50, 0, 50>>, <<0, 520, 10, 545>>, "#743873", 478 >>,
      << <<0, 50, 0, 50>>, <<0, 530, 0, 540>>, "#753775", 405 >>,
      << <<0, 50, 0, 50>>, <<0, 538, 0, 548>>, "#733573", 482 >>,
      << <<0, 50, 0, 50>>, <<0, 540, 20, 580>>, "#6B3169", 836 >>,
      << <<0, 50, 0, 50>>, <<0, 545, 10, 570>>, "#6E326D", 686 >>,
      << <<0, 50, 0, 50>>, <<0, 545, 30, 615>>, "#622D5F", 1251 >>,
      << <<0, 50, 0, 50>>, <<0, 550, 10, 575>>, "#6C316B", 764 >>,
      << <<0, 50, 0, 50>>, <<0, 565, 20, 605>>, "#652C63", 1056 >>,
      << <<0, 50, 0, 50>>, <<0, 565, 50, 665>>, "#552551", 1808 >>,
      << <<0, 50, 0, 50>>, <<0, 572, 20, 612>>, "#632A61", 1128 >>,
      << <<0, 50, 0, 50>>, <<0, 572, 30, 642>>, "#5B2759", 1466 >>,
      << <<0, 50, 0, 50>>, <<0, 580, 30, 650>>, "#592557", 1536 >>,
      << <<0, 50, 0, 50>>, <<0, 595, 50, 695>>, "#4E1F4A", 2061 >>,
      << <<0, 50, 0, 50>>, <<0, 598, 150, 692>>, "#4F2043", 2347 >>,
      << <<0, 50, 0, 50>>, <<0, 608, 50, 708>>, "#4A1D47", 2201 >>,
      << <<0, 50, 0, 50>>, <<0, 622, 150, 718>>, "#481B3D", 2576 >>,
      << <<0, 50, 0, 50>>, <<0, 635, 150, 730>>, "#45193B", 2657 >>,
      << <<0, 50, 0, 100>>, <<0, 512, 0, 1000>>, "#000000", 0 >>,
      << <<0, 50, 0, 100>>, <<0, 520, 10, 1000>>, "#000000", 0 >>,
      << <<0, 50, 0, 100>>, <<0, 530, 0, 1000>>, "#000000", 0 >>,
      << <<0, 50, 0, 100>>, <<0, 538, 0, 1000>>, "#000000", 0 >>,
      << <<0, 50, 0, 100>>, <<0, 540, 20, 1000>>, "#000000", 0 >>,
      << <<0, 50, 0, 100>>, <<0, 545, 10, 1000>>, "#000000", 0 >>,
      << <<0, 50, 0, 100>>, <<0, 545, 30, 1000>>, "#000000", 0 >>,
      << <<0, 50, 0, 100>>, <<0, 550, 10, 1000>>, "#000000", 0 >>,
      << <<0, 50, 0, 100>>, <<0, 565, 20, 1000>>, "#000000", 0 >>,
      << <<0, 50, 0, 100>>, <<0, 565, 50, 1000>>, "#000000", 0 >>,
      << <<0, 50, 0, 100>>, <<0, 572, 20, 1000>>, "#000000", 0 >>,
      << <<0, 50, 0, 100>>, <<0, 572, 30, 1000>>, "#000000", 0 >>,
      << <<0, 50, 0, 100>>, <<0, 580, 30, 1000>>, "#000000", 0 >>,
      << <<0, 50, 0, 100>>, <<0, 595, 50, 1000>>, "#000000", 0 >>,
      << <<0, 50, 0, 100>>, <<0, 598, 150, 1000>>, "#000000", 0 >>,
      << <<0, 50, 0, 100>>, <<0, 608, 50, 1000>>, "#000000", 0 >>,
      << <<0, 50, 0, 100>>, <<0, 622, 150, 1000>>, "#000000", 0 >>,
      << <<0, 50, 0, 100>>, <<0, 635, 150, 1000>>, "#000000", 0 >>,
      << <<0, 50, 50, 0>>, <<0, 512, 512, 20>>, "#FA7A7A", 214 >>,
      << <<0, 50, 50, 0>>, <<0, 520, 530, 50>>, "#F27472", 469 >>,
      << <<0, 50, 50, 0>>, <<0, 530, 530, 20>>, "#FA7575", 445 >>,
      << <<0, 50, 50, 0>>, <<0, 538, 538, 20>>, "#FA7373", 546 >>,
      << <<0, 50, 50, 0>>, <<0, 540, 550, 100>>, "#E66A67", 859 >>,
      << <<0, 50, 50, 0>>, <<0, 545, 555, 50>>, "#F26E6C", 700 >>,
      << <<0, 50, 50, 0>>, <<0, 545, 565, 140>>, "#DB645F", 1168 >>,
      << <<0, 50, 50, 0>>, <<0, 550, 560, 50>>, "#F26D6B", 745 >>,
      << <<0, 50, 50, 0>>, <<0, 565, 575, 100>>, "#E66462", 1036 >>,
      << <<0, 50, 50, 0>>, <<0, 565, 595, 210>>, "#C95852", 1705 >>,
      << <<0, 50, 50, 0>>, <<0, 572, 582, 100>>, "#E66260", 1114 >>,
      << <<0, 50, 50, 0>>, <<0, 572, 592, 140>>, "#DB5E59", 1325 >>,
      << <<0, 50, 50, 0>>, <<0, 580, 600, 140>>, "#DB5C58", 1369 >>,
      << <<0, 50, 50, 0>>, <<0, 595, 625, 210>>, "#C9524C", 1832 >>,
      << <<0, 50, 50, 0>>, <<0, 598, 688, 230>>, "#C44F3D", 2252 >>,
      << <<0, 50, 50, 0>>, <<0, 608, 638, 210>>, "#C94F49", 1913 >>,
      << <<0, 50, 50, 0>>, <<0, 622, 712, 230>>, "#C44A39", 2379 >>,
      << <<0, 50, 50, 0>>, <<0, 635, 725, 230>>, "#C44836", 2480 >>,
      << <<0, 50, 50, 50>>, <<0, 512, 512, 522>>, "#7A3B3B", 217 >>,
      << <<0, 50, 50, 50>>, <<0, 520, 530, 545>>, "#743837", 409 >>,
      << <<0, 50, 50, 50>>, <<0, 530, 530, 540>>, "#753737", 395 >>,
      << <<0, 50, 50, 50>>, <<0, 538, 538, 548>>, "#733535", 475 >>,
      << <<0, 50, 50, 50>>, <<0, 540, 550, 580>>, "#6B3130", 727 >>,
      << <<0, 50, 50, 50>>, <<0, 545, 555, 570>>, "#6E3231", 642 >>,
      << <<0, 50, 50, 50>>, <<0, 545, 565, 615>>, "#622D2B", 1026 >>,
      << <<0, 50, 50, 50>>, <<0, 550, 560, 575>>, "#6C3130", 703 >>,
      << <<0, 50, 50, 50>>, <<0, 565, 575, 605>>, "#652C2B", 947 >>,
      << <<0, 50, 50, 50>>, <<0, 565, 595, 665>>, "#552523", 1482 >>,
      << <<0, 50, 50, 50>>, <<0, 572, 582, 612>>, "#632A29", 1027 >>,
      << <<0, 50, 50, 50>>, <<0, 572, 592, 642>>, "#5B2725", 1282 >>,
      << <<0, 50, 50, 50>>, <<0, 580, 600, 650>>, "#592524", 1355 >>,
      << <<0, 50, 50, 50>>, <<0, 595, 625, 695>>, "#4E1F1D", 1742 >>,
      << <<0, 50, 50, 50>>, <<0, 598, 688, 692>>, "#4F2019", 1747 >>,
      << <<0, 50, 50, 50>>, <<0, 608, 638, 708>>, "#4A1D1B", 1883 >>,
      << <<0, 50, 50, 50>>, <<0, 622, 712, 718>>, "#481B15", 1988 >>,
      << <<0, 50, 50, 50>>, <<0, 635, 725, 730>>, "#451913", 2096 >>,
      << <<0, 50, 50, 100>>, <<0, 512, 512, 1000>>, "#000000", 0 >>,
      << <<0, 50, 50, 100>>, <<0, 520, 530, 1000>>, "#000000", 0 >>,
      << <<0, 50, 50, 100>>, <<0, 530, 530, 1000>>, "#000000", 0 >>,
      << <<0, 50, 50, 100>>, <<0, 538, 538, 1000>>, "#000000", 0 >>,
      << <<0, 50, 50, 100>>, <<0, 540, 550, 1000>>, "#000000", 0 >>,
      << <<0, 50, 50, 100>>, <<0, 545, 555, 1000>>, "#000000", 0 >>,
      << <<0, 50, 50, 100>>, <<0, 545, 565, 1000>>, "#000000", 0 >>,
      << <<0, 50, 50, 100>>, <<0, 550, 560, 1000>>, "#000000", 0 >>,
      << <<0, 50, 50, 100>>, <<0, 565, 575, 1000>>, "#000000", 0 >>,
      << <<0, 50, 50, 100>>, <<0, 565, 595, 1000>>, "#000000", 0 >>,
      << <<0, 50, 50, 100>>, <<0, 572, 582, 1000>>, "#000000", 0 >>,
      << <<0, 50, 50, 100>>, <<0, 572, 592, 1000>>, "#000000", 0 >>,
      << <<0, 50, 50, 100>>, <<0, 580, 600, 1000>>, "#000000", 0 >>,
      << <<0, 50, 50, 100>>, <<0, 595, 625, 1000>>, "#000000", 0 >>,
      << <<0, 50, 50, 100>>, <<0, 598, 688, 1000>>, "#000000", 0 >>,
      << <<0, 50, 50, 100>>, <<0, 608, 638, 1000>>, "#000000", 0 >>,
      << <<0, 50, 50, 100>>, <<0, 622, 712, 1000>>, "#000000", 0 >>,
      << <<0, 50, 50, 100>>, <<0, 635, 725, 1000>>, "#000000", 0 >>,
      << <<0, 50, 100, 0>>, <<0, 512, 1000, 20>>, "#FA7A00", 262 >>,
      << <<0, 50, 100, 0>>, <<0, 520, 1000, 50>>, "#F27400", 554 >>,
      << <<0, 50, 100, 0>>, <<0, 530, 1000, 20>>, "#FA7500", 491 >>,
      << <<0, 50, 100, 0>>, <<0, 538, 1000, 20>>, "#FA7300", 590 >>,
      << <<0, 50, 100, 0>>, <<0, 540, 1000, 100>>, "#E66A00", 1037 >>,
      << <<0, 50, 100, 0>>, <<0, 545, 1000, 50>>, "#F26E00", 775 >>,
      << <<0, 50, 100, 0>>, <<0, 545, 1000, 140>>, "#DB6400", 1409 >>,
      << <<0, 50, 100, 0>>, <<0, 550, 1000, 50>>, "#F26D00", 817 >>,
      << <<0, 50, 100, 0>>, <<0, 565, 1000, 100>>, "#E66400", 1225 >>,
      << <<0, 50, 100, 0>>, <<0, 565, 1000, 210>>, "#C95800", 2087 >>,
      << <<0, 50, 100, 0>>, <<0, 572, 1000, 100>>, "#E66200", 1297 >>,
      << <<0, 50, 100, 0>>, <<0, 572, 1000, 140>>, "#DB5E00", 1560 >>,
      << <<0, 50, 100, 0>>, <<0, 580, 1000, 140>>, "#DB5C00", 1619 >>,
      << <<0, 50, 100, 0>>, <<0, 595, 1000, 210>>, "#C95200", 2214 >>,
      << <<0, 50, 100, 0>>, <<0, 598, 1000, 230>>, "#C44F00", 2392 >>,
      << <<0, 50, 100, 0>>, <<0, 608, 1000, 210>>, "#C94F00", 2288 >>,
      << <<0, 50, 100, 0>>, <<0, 622, 1000, 230>>, "#C44A00", 2511 >>,
      << <<0, 50, 100, 0>>, <<0, 635, 1000, 230>>, "#C44800", 2562 >>,
      << <<0, 50, 100, 50>>, <<0, 512, 1000, 522>>, "#7A3B00", 276 >>,
      << <<0, 50, 100, 50>>, <<0, 520, 1000, 545>>, "#743800", 513 >>,
      << <<0, 50, 100, 50>>, <<0, 530, 1000, 540>>, "#753700", 510 >>,
      << <<0, 50, 100, 50>>, <<0, 538, 1000, 548>>, "#733500", 618 >>,
      << <<0, 50, 100, 50>>, <<0, 540, 1000, 580>>, "#6B3100", 948 >>,
      << <<0, 50, 100, 50>>, <<0, 545, 1000, 570>>, "#6E3200", 834 >>,
      << <<0, 50, 100, 50>>, <<0, 545, 1000, 615>>, "#622D00", 1341 >>,
      << <<0, 50, 100, 50>>, <<0, 550, 1000, 575>>, "#6C3100", 918 >>,
      << <<0, 50, 100, 50>>, <<0, 565, 1000, 605>>, "#652C00", 1263 >>,
      << <<0, 50, 100, 50>>, <<0, 565, 1000, 665>>, "#552500", 1998 >>,
      << <<0, 50, 100, 50>>, <<0, 572, 1000, 612>>, "#632A00", 1381 >>,
      << <<0, 50, 100, 50>>, <<0, 572, 1000, 642>>, "#5B2700", 1727 >>,
      << <<0, 50, 100, 50>>, <<0, 580, 1000, 650>>, "#592500", 1850 >>,
      << <<0, 50, 100, 50>>, <<0, 595, 1000, 695>>, "#4E1F00", 2416 >>,
      << <<0, 50, 100, 50>>, <<0, 598, 1000, 692>>, "#4F2000", 2351 >>,
      << <<0, 50, 100, 50>>, <<0, 608, 1000, 708>>, "#4A1D00", 2627 >>,
      << <<0, 50, 100, 50>>, <<0, 622, 1000, 718>>, "#481B00", 2761 >>,
      << <<0, 50, 100, 50>>, <<0, 635, 1000, 730>>, "#451900", 2937 >>,
      << <<0, 50, 100, 100>>, <<0, 512, 1000, 1000>>, "#000000", 0 >>,
      << <<0, 50, 100, 100>>, <<0, 520, 1000, 1000>>, "#000000", 0 >>,
      << <<0, 50, 100, 100>>, <<0, 530, 1000, 1000>>, "#000000", 0 >>,
      << <<0, 50, 100, 100>>, <<0, 538, 1000, 1000>>, "#000000", 0 >>,
      << <<0, 50, 100, 100>>, <<0, 540, 1000, 1000>>, "#000000", 0 >>,
      << <<0, 50, 100, 100>>, <<0, 545, 1000, 1000>>, "#000000", 0 >>,
      << <<0, 50, 100, 100>>, <<0, 550, 1000, 1000>>, "#000000", 0 >>,
      << <<0, 50, 100, 100>>, <<0, 565, 1000, 1000>>, "#000000", 0 >>,
      << <<0, 50, 100, 100>>, <<0, 572, 1000, 1000>>, "#000000", 0 >>,
      << <<0, 50, 100, 100>>, <<0, 580, 1000, 1000>>, "#000000", 0 >>,
      << <<0, 50, 100, 100>>, <<0, 595, 1000, 1000>>, "#000000", 0 >>,
      << <<0, 50, 100, 100>>, <<0, 598, 1000, 1000>>, "#000000", 0 >>,
      << <<0, 50, 100, 100>>, <<0, 608, 1000, 1000>>, "#000000", 0 >>,
      << <<0, 50, 100, 100>>, <<0, 622, 1000, 1000>>, "#000000", 0 >>,
      << <<0, 50, 100, 100>>, <<0, 635, 1000, 1000>>, "#000000", 0 >>,
      << <<0, 100, 0, 0>>, <<0, 1000, 0, 20>>, "#FA00FA", 206 >>,
      << <<0, 100, 0, 0>>, <<0, 1000, 10, 50>>, "#F200F0", 609 >>,
      << <<0, 100, 0, 0>>, <<0, 1000, 20, 100>>, "#E600E1", 1223 >>,
      << <<0, 100, 0, 0>>, <<0, 1000, 30, 140>>, "#DB00D5", 1723 >>,
      << <<0, 100, 0, 0>>, <<0, 1000, 50, 210>>, "#C900BF", 2647 >>,
      << <<0, 100, 0, 0>>, <<0, 1000, 150, 230>>, "#C400A7", 3674 >>,
      << <<0, 100, 0, 50>>, <<0, 1000, 0, 522>>, "#7A007A", 282 >>,
      << <<0, 100, 0, 50>>, <<0, 1000, 0, 540>>, "#750075", 519 >>,
      << <<0, 100, 0, 50>>, <<0, 1000, 0, 548>>, "#730073", 614 >>,
      << <<0, 100, 0, 50>>, <<0, 1000, 10, 545>>, "#740073", 606 >>,
      << <<0, 100, 0, 50>>, <<0, 1000, 10, 570>>, "#6E006D", 893 >>,
      << <<0, 100, 0, 50>>, <<0, 1000, 10, 575>>, "#6C006B", 990 >>,
      << <<0, 100, 0, 50>>, <<0, 1000, 20, 580>>, "#6B0069", 1079 >>,
      << <<0, 100, 0, 50>>, <<0, 1000, 20, 605>>, "#650063", 1371 >>,
      << <<0, 100, 0, 50>>, <<0, 1000, 20, 612>>, "#630061", 1469 >>,
      << <<0, 100, 0, 50>>, <<0, 1000, 30, 615>>, "#62005F", 1560 >>,
      << <<0, 100, 0, 50>>, <<0, 1000, 30, 642>>, "#5B0059", 1864 >>,
      << <<0, 100, 0, 50>>, <<0, 1000, 30, 650>>, "#590057", 1964 >>,
      << <<0, 100, 0, 50>>, <<0, 1000, 50, 665>>, "#550051", 2251 >>,
      << <<0, 100, 0, 50>>, <<0, 1000, 50, 695>>, "#4E004A", 2607 >>,
      << <<0, 100, 0, 50>>, <<0, 1000, 50, 708>>, "#4A0047", 2769 >>,
      << <<0, 100, 0, 50>>, <<0, 1000, 150, 692>>, "#4F0043", 2928 >>,
      << <<0, 100, 0, 50>>, <<0, 1000, 150, 718>>, "#48003D", 3242 >>,
      << <<0, 100, 0, 50>>, <<0, 1000, 150, 730>>, "#45003B", 3352 >>,
      << <<0, 100, 0, 100>>, <<0, 1000, 0, 1000>>, "#000000", 0 >>,
      << <<0, 100, 0, 100>>, <<0, 1000, 10, 1000>>, "#000000", 0 >>,
      << <<0, 100, 0, 100>>, <<0, 1000, 20, 1000>>, "#000000", 0 >>,
      << <<0, 100, 0, 100>>, <<0, 1000, 30, 1000>>, "#000000", 0 >>,
      << <<0, 100, 0, 100>>, <<0, 1000, 50, 1000>>, "#000000", 0 >>,
      << <<0, 100, 0, 100>>, <<0, 1000, 150, 1000>>, "#000000", 0 >>,
      << <<0, 100, 50, 0>>, <<0, 1000, 512, 20>>, "#FA007A", 263 >>,
      << <<0, 100, 50, 0>>, <<0, 1000, 530, 20>>, "#FA0075", 518 >>,
      << <<0, 100, 50, 0>>, <<0, 1000, 530, 50>>, "#F20072", 619 >>,
      << <<0, 100, 50, 0>>, <<0, 1000, 538, 20>>, "#FA0073", 628 >>,
      << <<0, 100, 50, 0>>, <<0, 1000, 550, 100>>, "#E60067", 1119 >>,
      << <<0, 100, 50, 0>>, <<0, 1000, 555, 50>>, "#F2006C", 900 >>,
      << <<0, 100, 50, 0>>, <<0, 1000, 560, 50>>, "#F2006B", 952 >>,
      << <<0, 100, 50, 0>>, <<0, 1000, 565, 140>>, "#DB005F", 1508 >>,
      << <<0, 100, 50, 0>>, <<0, 1000, 575, 100>>, "#E60062", 1333 >>,
      << <<0, 100, 50, 0>>, <<0, 1000, 582, 100>>, "#E60060", 1426 >>,
      << <<0, 100, 50, 0>>, <<0, 1000, 592, 140>>, "#DB0059", 1745 >>,
      << <<0, 100, 50, 0>>, <<0, 1000, 595, 210>>, "#C90052", 2162 >>,
      << <<0, 100, 50, 0>>, <<0, 1000, 600, 140>>, "#DB0058", 1788 >>,
      << <<0, 100, 50, 0>>, <<0, 1000, 625, 210>>, "#C9004C", 2376 >>,
      << <<0, 100, 50, 0>>, <<0, 1000, 638, 210>>, "#C90049", 2496 >>,
      << <<0, 100, 50, 0>>, <<0, 1000, 688, 230>>, "#C4003D", 3033 >>,
      << <<0, 100, 50, 0>>, <<0, 1000, 712, 230>>, "#C40039", 3216 >>,
      << <<0, 100, 50, 0>>, <<0, 1000, 725, 230>>, "#C40036", 3358 >>,
      << <<0, 100, 50, 50>>, <<0, 1000, 512, 522>>, "#7A003B", 263 >>,
      << <<0, 100, 50, 50>>, <<0, 1000, 530, 540>>, "#750037", 479 >>,
      << <<0, 100, 50, 50>>, <<0, 1000, 530, 545>>, "#740037", 498 >>,
      << <<0, 100, 50, 50>>, <<0, 1000, 538, 548>>, "#730035", 579 >>,
      << <<0, 100, 50, 50>>, <<0, 1000, 550, 580>>, "#6B0030", 885 >>,
      << <<0, 100, 50, 50>>, <<0, 1000, 555, 570>>, "#6E0031", 798 >>,
      << <<0, 100, 50, 50>>, <<0, 1000, 560, 575>>, "#6C0030", 865 >>,
      << <<0, 100, 50, 50>>, <<0, 1000, 565, 615>>, "#62002B", 1224 >>,
      << <<0, 100, 50, 50>>, <<0, 1000, 575, 605>>, "#65002B", 1156 >>,
      << <<0, 100, 50, 50>>, <<0, 1000, 582, 612>>, "#630029", 1258 >>,
      << <<0, 100, 50, 50>>, <<0, 1000, 592, 642>>, "#5B0025", 1547 >>,
      << <<0, 100, 50, 50>>, <<0, 1000, 595, 665>>, "#550023", 1749 >>,
      << <<0, 100, 50, 50>>, <<0, 1000, 600, 650>>, "#590024", 1621 >>,
      << <<0, 100, 50, 50>>, <<0, 1000, 625, 695>>, "#4E001D", 2078 >>,
      << <<0, 100, 50, 50>>, <<0, 1000, 638, 708>>, "#4A001B", 2233 >>,
      << <<0, 100, 50, 50>>, <<0, 1000, 688, 692>>, "#4F0019", 2172 >>,
      << <<0, 100, 50, 50>>, <<0, 1000, 712, 718>>, "#480015", 2446 >>,
      << <<0, 100, 50, 50>>, <<0, 1000, 725, 730>>, "#450013", 2569 >>,
      << <<0, 100, 50, 100>>, <<0, 1000, 512, 1000>>, "#000000", 0 >>,
      << <<0, 100, 50, 100>>, <<0, 1000, 530, 1000>>, "#000000", 0 >>,
      << <<0, 100, 50, 100>>, <<0, 1000, 538, 1000>>, "#000000", 0 >>,
      << <<0, 100, 50, 100>>, <<0, 1000, 550, 1000>>, "#000000", 0 >>,
      << <<0, 100, 50, 100>>, <<0, 1000, 555, 1000>>, "#000000", 0 >>,
      << <<0, 100, 50, 100>>, <<0, 1000, 560, 1000>>, "#000000", 0 >>,
      << <<0, 100, 50, 100>>, <<0, 1000, 565, 1000>>, "#000000", 0 >>,
      << <<0, 100, 50, 100>>, <<0, 1000, 575, 1000>>, "#000000", 0 >>,
      << <<0, 100, 50, 100>>, <<0, 1000, 582, 1000>>, "#000000", 0 >>,
      << <<0, 100, 50, 100>>, <<0, 1000, 592, 1000>>, "#000000", 0 >>,
      << <<0, 100, 50, 100>>, <<0, 1000, 595, 1000>>, "#000000", 0 >>,
      << <<0, 100, 50, 100>>, <<0, 1000, 600, 1000>>, "#000000", 0 >>,
      << <<0, 100, 50, 100>>, <<0, 1000, 625, 1000>>, "#000000", 0 >>,
      << <<0, 100, 50, 100>>, <<0, 1000, 638, 1000>>, "#000000", 0 >>,
      << <<0, 100, 50, 100>>, <<0, 1000, 688, 1000>>, "#000000", 0 >>,
      << <<0, 100, 50, 100>>, <<0, 1000, 712, 1000>>, "#000000", 0 >>,
      << <<0, 100, 50, 100>>, <<0, 1000, 725, 1000>>, "#000000", 0 >>,
      << <<0, 100, 100, 0>>, <<0, 1000, 1000, 20>>, "#FA0000", 187 >>,
      << <<0, 100, 100, 0>>, <<0, 1000, 1000, 50>>, "#F20000", 487 >>,
      << <<0, 100, 100, 0>>, <<0, 1000, 1000, 100>>, "#E60000", 941 >>,
      << <<0, 100, 100, 0>>, <<0, 1000, 1000, 140>>, "#DB0000", 1361 >>,
      << <<0, 100, 100, 0>>, <<0, 1000, 1000, 210>>, "#C90000", 2058 >>,
      << <<0, 100, 100, 0>>, <<0, 1000, 1000, 230>>, "#C40000", 2253 >>,
      << <<0, 100, 100, 50>>, <<0, 1000, 1000, 522>>, "#7A0000", 284 >>,
      << <<0, 100, 100, 50>>, <<0, 1000, 1000, 540>>, "#750000", 524 >>,
      << <<0, 100, 100, 50>>, <<0, 1000, 1000, 545>>, "#740000", 572 >>,
      << <<0, 100, 100, 50>>, <<0, 1000, 1000, 548>>, "#730000", 621 >>,
      << <<0, 100, 100, 50>>, <<0, 1000, 1000, 570>>, "#6E0000", 866 >>,
      << <<0, 100, 100, 50>>, <<0, 1000, 1000, 575>>, "#6C0000", 966 >>,
      << <<0, 100, 100, 50>>, <<0, 1000, 1000, 580>>, "#6B0000", 1016 >>,
      << <<0, 100, 100, 50>>, <<0, 1000, 1000, 605>>, "#650000", 1318 >>,
      << <<0, 100, 100, 50>>, <<0, 1000, 1000, 612>>, "#630000", 1420 >>,
      << <<0, 100, 100, 50>>, <<0, 1000, 1000, 615>>, "#620000", 1471 >>,
      << <<0, 100, 100, 50>>, <<0, 1000, 1000, 642>>, "#5B0000", 1834 >>,
      << <<0, 100, 100, 50>>, <<0, 1000, 1000, 650>>, "#590000", 1940 >>,
      << <<0, 100, 100, 50>>, <<0, 1000, 1000, 665>>, "#550000", 2152 >>,
      << <<0, 100, 100, 50>>, <<0, 1000, 1000, 692>>, "#4F0000", 2477 >>,
      << <<0, 100, 100, 50>>, <<0, 1000, 1000, 695>>, "#4E0000", 2531 >>,
      << <<0, 100, 100, 50>>, <<0, 1000, 1000, 708>>, "#4A0000", 2752 >>,
      << <<0, 100, 100, 50>>, <<0, 1000, 1000, 718>>, "#480000", 2864 >>,
      << <<0, 100, 100, 50>>, <<0, 1000, 1000, 730>>, "#450000", 3032 >>,
      << <<0, 100, 100, 100>>, <<0, 1000, 1000, 1000>>, "#000000", 0 >>,
      << <<40, 30, 20, 10>>, <<412, 311, 208, 122>>, "#849AB1", 260 >>,
      << <<40, 30, 20, 10>>, <<419, 317, 223, 152>>, "#7E94A8", 518 >>,
      << <<40, 30, 20, 10>>, <<429, 325, 219, 129>>, "#7F96AD", 416 >>,
      << <<40, 30, 20, 10>>, <<429, 335, 239, 201>>, "#74879B", 990 >>,
      << <<40, 30, 20, 10>>, <<434, 339, 252, 241>>, "#6E8091", 1292 >>,
      << <<40, 30, 20, 10>>, <<436, 331, 224, 132>>, "#7D94AC", 495 >>,
      << <<40, 30, 20, 10>>, <<436, 391, 374, 329>>, "#61686B", 2479 >>,
      << <<40, 30, 20, 10>>, <<443, 338, 239, 161>>, "#778EA3", 734 >>,
      << <<40, 30, 20, 10>>, <<443, 358, 279, 308>>, "#62717F", 1901 >>,
      << <<40, 30, 20, 10>>, <<448, 342, 242, 163>>, "#768CA2", 796 >>,
      << <<40, 30, 20, 10>>, <<453, 356, 255, 210>>, "#6E8296", 1186 >>,
      << <<40, 30, 20, 10>>, <<460, 362, 260, 212>>, "#6D8095", 1252 >>,
      << <<40, 30, 20, 10>>, <<460, 362, 270, 250>>, "#677A8C", 1511 >>,
      << <<40, 30, 20, 10>>, <<460, 412, 390, 338>>, "#5B6367", 2633 >>,
      << <<40, 30, 20, 10>>, <<467, 369, 275, 253>>, "#66788A", 1585 >>,
      << <<40, 30, 20, 10>>, <<472, 383, 298, 319>>, "#5C6B7A", 2119 >>,
      << <<40, 30, 20, 10>>, <<472, 423, 398, 342>>, "#596165", 2708 >>,
      << <<40, 30, 20, 10>>, <<484, 394, 306, 324>>, "#596878", 2225 >>,
      << <<50, 0, 0, 0>>, <<512, 0, 0, 20>>, "#7AFAFA", 174 >>,
      << <<50, 0, 0, 0>>, <<520, 0, 10, 50>>, "#74F2F0", 461 >>,
      << <<50, 0, 0, 0>>, <<530, 0, 0, 20>>, "#75FAFA", 222 >>,
      << <<50, 0, 0, 0>>, <<530, 10, 20, 100>>, "#6CE3E1", 966 >>,
      << <<50, 0, 0, 0>>, <<535, 10, 30, 140>>, "#66D9D5", 1328 >>,
      << <<50, 0, 0, 0>>, <<538, 0, 0, 20>>, "#73FAFA", 249 >>,
      << <<50, 0, 0, 0>>, <<538, 60, 150, 230>>, "#5BB9A7", 2666 >>,
      << <<50, 0, 0, 0>>, <<545, 0, 10, 50>>, "#6EF2F0", 491 >>,
      << <<50, 0, 0, 0>>, <<545, 20, 50, 210>>, "#5CC5BF", 2047 >>,
      << <<50, 0, 0, 0>>, <<550, 0, 10, 50>>, "#6DF2F0", 498 >>,
      << <<50, 0, 0, 0>>, <<555, 10, 20, 100>>, "#66E3E1", 970 >>,
      << <<50, 0, 0, 0>>, <<562, 10, 20, 100>>, "#65E3E1", 972 >>,
      << <<50, 0, 0, 0>>, <<562, 10, 30, 140>>, "#60D9D5", 1329 >>,
      << <<50, 0, 0, 0>>, <<562, 60, 150, 230>>, "#56B9A7", 2661 >>,
      << <<50, 0, 0, 0>>, <<570, 10, 30, 140>>, "#5ED9D5", 1332 >>,
      << <<50, 0, 0, 0>>, <<575, 20, 50, 210>>, "#56C5BF", 2042 >>,
      << <<50, 0, 0, 0>>, <<575, 60, 150, 230>>, "#53B9A7", 2659 >>,
      << <<50, 0, 0, 0>>, <<588, 20, 50, 210>>, "#53C5BF", 2042 >>,
      << <<50, 0, 0, 50>>, <<512, 0, 0, 522>>, "#3B7A7A", 232 >>,
      << <<50, 0, 0, 50>>, <<520, 0, 10, 545>>, "#387473", 471 >>,
      << <<50, 0, 0, 50>>, <<530, 0, 0, 540>>, "#377575", 426 >>,
      << <<50, 0, 0, 50>>, <<530, 10, 20, 580>>, "#326A69", 866 >>,
      << <<50, 0, 0, 50>>, <<535, 10, 30, 615>>, "#2E615F", 1237 >>,
      << <<50, 0, 0, 50>>, <<538, 0, 0, 548>>, "#357373", 504 >>,
      << <<50, 0, 0, 50>>, <<538, 60, 150, 692>>, "#244A43", 2248 >>,
      << <<50, 0, 0, 50>>, <<545, 0, 10, 570>>, "#326E6D", 705 >>,
      << <<50, 0, 0, 50>>, <<545, 20, 50, 665>>, "#275451", 1778 >>,
      << <<50, 0, 0, 50>>, <<550, 0, 10, 575>>, "#316C6B", 784 >>,
      << <<50, 0, 0, 50>>, <<555, 10, 20, 605>>, "#2D6463", 1104 >>,
      << <<50, 0, 0, 50>>, <<562, 10, 20, 612>>, "#2B6261", 1183 >>,
      << <<50, 0, 0, 50>>, <<562, 10, 30, 642>>, "#285A59", 1513 >>,
      << <<50, 0, 0, 50>>, <<562, 60, 150, 718>>, "#1F443D", 2496 >>,
      << <<50, 0, 0, 50>>, <<570, 10, 30, 650>>, "#265857", 1593 >>,
      << <<50, 0, 0, 50>>, <<575, 20, 50, 695>>, "#214C4A", 2104 >>,
      << <<50, 0, 0, 50>>, <<575, 60, 150, 730>>, "#1D413B", 2613 >>,
      << <<50, 0, 0, 50>>, <<588, 20, 50, 708>>, "#1F4947", 2231 >>,
      << <<50, 0, 0, 100>>, <<512, 0, 0, 1000>>, "#000000", 0 >>,
      << <<50, 0, 0, 100>>, <<520, 0, 10, 1000>>, "#000000", 0 >>,
      << <<50, 0, 0, 100>>, <<530, 0, 0, 1000>>, "#000000", 0 >>,
      << <<50, 0, 0, 100>>, <<530, 10, 20, 1000>>, "#000000", 0 >>,
      << <<50, 0, 0, 100>>, <<535, 10, 30, 1000>>, "#000000", 0 >>,
      << <<50, 0, 0, 100>>, <<538, 0, 0, 1000>>, "#000000", 0 >>,
      << <<50, 0, 0, 100>>, <<538, 60, 150, 1000>>, "#000000", 0 >>,
      << <<50, 0, 0, 100>>, <<545, 0, 10, 1000>>, "#000000", 0 >>,
      << <<50, 0, 0, 100>>, <<545, 20, 50, 1000>>, "#000000", 0 >>,
      << <<50, 0, 0, 100>>, <<550, 0, 10, 1000>>, "#000000", 0 >>,
      << <<50, 0, 0, 100>>, <<555, 10, 20, 1000>>, "#000000", 0 >>,
      << <<50, 0, 0, 100>>, <<562, 10, 20, 1000>>, "#000000", 0 >>,
      << <<50, 0, 0, 100>>, <<562, 10, 30, 1000>>, "#000000", 0 >>,
      << <<50, 0, 0, 100>>, <<562, 60, 150, 1000>>, "#000000", 0 >>,
      << <<50, 0, 0, 100>>, <<570, 10, 30, 1000>>, "#000000", 0 >>,
      << <<50, 0, 0, 100>>, <<575, 20, 50, 1000>>, "#000000", 0 >>,
      << <<50, 0, 0, 100>>, <<575, 60, 150, 1000>>, "#000000", 0 >>,
      << <<50, 0, 0, 100>>, <<588, 20, 50, 1000>>, "#000000", 0 >>,
      << <<50, 0, 50, 0>>, <<512, 0, 512, 20>>, "#7AFA7A", 189 >>,
      << <<50, 0, 50, 0>>, <<520, 0, 530, 50>>, "#74F272", 453 >>,
      << <<50, 0, 50, 0>>, <<530, 0, 530, 20>>, "#75FA75", 398 >>,
      << <<50, 0, 50, 0>>, <<530, 10, 550, 100>>, "#6CE367", 958 >>,
      << <<50, 0, 50, 0>>, <<535, 10, 565, 140>>, "#66D95F", 1312 >>,
      << <<50, 0, 50, 0>>, <<538, 0, 538, 20>>, "#73FA73", 498 >>,
      << <<50, 0, 50, 0>>, <<538, 60, 688, 230>>, "#5BB93D", 2515 >>,
      << <<50, 0, 50, 0>>, <<545, 0, 555, 50>>, "#6EF26C", 615 >>,
      << <<50, 0, 50, 0>>, <<545, 20, 595, 210>>, "#5CC552", 2060 >>,
      << <<50, 0, 50, 0>>, <<550, 0, 560, 50>>, "#6DF26B", 654 >>,
      << <<50, 0, 50, 0>>, <<555, 10, 575, 100>>, "#66E362", 977 >>,
      << <<50, 0, 50, 0>>, <<562, 10, 582, 100>>, "#65E360", 1003 >>,
      << <<50, 0, 50, 0>>, <<562, 10, 592, 140>>, "#60D959", 1313 >>,
      << <<50, 0, 50, 0>>, <<562, 60, 712, 230>>, "#56B939", 2493 >>,
      << <<50, 0, 50, 0>>, <<570, 10, 600, 140>>, "#5ED958", 1321 >>,
      << <<50, 0, 50, 0>>, <<575, 20, 625, 210>>, "#56C54C", 2009 >>,
      << <<50, 0, 50, 0>>, <<575, 60, 725, 230>>, "#53B936", 2493 >>,
      << <<50, 0, 50, 0>>, <<588, 20, 638, 210>>, "#53C549", 2003 >>,
      << <<50, 0, 50, 50>>, <<512, 0, 512, 522>>, "#3B7A3B", 231 >>,
      << <<50, 0, 50, 50>>, <<520, 0, 530, 545>>, "#387437", 479 >>,
      << <<50, 0, 50, 50>>, <<530, 0, 530, 540>>, "#377537", 427 >>,
      << <<50, 0, 50, 50>>, <<530, 10, 550, 580>>, "#326A30", 895 >>,
      << <<50, 0, 50, 50>>, <<535, 10, 565, 615>>, "#2E612B", 1306 >>,
      << <<50, 0, 50, 50>>, <<538, 0, 538, 548>>, "#357335", 503 >>,
      << <<50, 0, 50, 50>>, <<538, 60, 688, 692>>, "#244A19", 2316 >>,
      << <<50, 0, 50, 50>>, <<545, 0, 555, 570>>, "#326E31", 702 >>,
      << <<50, 0, 50, 50>>, <<545, 20, 595, 665>>, "#275423", 1893 >>,
      << <<50, 0, 50, 50>>, <<550, 0, 560, 575>>, "#316C30", 787 >>,
      << <<50, 0, 50, 50>>, <<555, 10, 575, 605>>, "#2D642B", 1130 >>,
      << <<50, 0, 50, 50>>, <<562, 10, 582, 612>>, "#2B6229", 1205 >>,
      << <<50, 0, 50, 50>>, <<562, 10, 592, 642>>, "#285A25", 1577 >>,
      << <<50, 0, 50, 50>>, <<562, 60, 712, 718>>, "#1F4415", 2576 >>,
      << <<50, 0, 50, 50>>, <<570, 10, 600, 650>>, "#265824", 1665 >>,
      << <<50, 0, 50, 50>>, <<575, 20, 625, 695>>, "#214C1D", 2229 >>,
      << <<50, 0, 50, 50>>, <<575, 60, 725, 730>>, "#1D4113", 2713 >>,
      << <<50, 0, 50, 50>>, <<588, 20, 638, 708>>, "#1F491B", 2363 >>,
      << <<50, 0, 50, 100>>, <<512, 0, 512, 1000>>, "#000000", 0 >>,
      << <<50, 0, 50, 100>>, <<520, 0, 530, 1000>>, "#000000", 0 >>,
      << <<50, 0, 50, 100>>, <<530, 0, 530, 1000>>, "#000000", 0 >>,
      << <<50, 0, 50, 100>>, <<530, 10, 550, 1000>>, "#000000", 0 >>,
      << <<50, 0, 50, 100>>, <<535, 10, 565, 1000>>, "#000000", 0 >>,
      << <<50, 0, 50, 100>>, <<538, 0, 538, 1000>>, "#000000", 0 >>,
      << <<50, 0, 50, 100>>, <<538, 60, 688, 1000>>, "#000000", 0 >>,
      << <<50, 0, 50, 100>>, <<545, 0, 555, 1000>>, "#000000", 0 >>,
      << <<50, 0, 50, 100>>, <<545, 20, 595, 1000>>, "#000000", 0 >>,
      << <<50, 0, 50, 100>>, <<550, 0, 560, 1000>>, "#000000", 0 >>,
      << <<50, 0, 50, 100>>, <<555, 10, 575, 1000>>, "#000000", 0 >>,
      << <<50, 0, 50, 100>>, <<562, 10, 582, 1000>>, "#000000", 0 >>,
      << <<50, 0, 50, 100>>, <<562, 10, 592, 1000>>, "#000000", 0 >>,
      << <<50, 0, 50, 100>>, <<562, 60, 712, 1000>>, "#000000", 0 >>,
      << <<50, 0, 50, 100>>, <<570, 10, 600, 1000>>, "#000000", 0 >>,
      << <<50, 0, 50, 100>>, <<575, 20, 625, 1000>>, "#000000", 0 >>,
      << <<50, 0, 50, 100>>, <<575, 60, 725, 1000>>, "#000000", 0 >>,
      << <<50, 0, 50, 100>>, <<588, 20, 638, 1000>>, "#000000", 0 >>,
      << <<50, 0, 100, 0>>, <<512, 0, 1000, 20>>, "#7AFA00", 222 >>,
      << <<50, 0, 100, 0>>, <<520, 0, 1000, 50>>, "#74F200", 570 >>,
      << <<50, 0, 100, 0>>, <<530, 0, 1000, 20>>, "#75FA00", 279 >>,
      << <<50, 0, 100, 0>>, <<530, 10, 1000, 100>>, "#6CE300", 1250 >>,
      << <<50, 0, 100, 0>>, <<535, 10, 1000, 140>>, "#66D900", 1709 >>,
      << <<50, 0, 100, 0>>, <<538, 0, 1000, 20>>, "#73FA00", 315 >>,
      << <<50, 0, 100, 0>>, <<538, 60, 1000, 230>>, "#5BB900", 3261 >>,
      << <<50, 0, 100, 0>>, <<545, 0, 1000, 50>>, "#6EF200", 590 >>,
      << <<50, 0, 100, 0>>, <<545, 20, 1000, 210>>, "#5CC500", 2650 >>,
      << <<50, 0, 100, 0>>, <<550, 0, 1000, 50>>, "#6DF200", 597 >>,
      << <<50, 0, 100, 0>>, <<555, 10, 1000, 100>>, "#66E300", 1235 >>,
      << <<50, 0, 100, 0>>, <<562, 10, 1000, 100>>, "#65E300", 1235 >>,
      << <<50, 0, 100, 0>>, <<562, 10, 1000, 140>>, "#60D900", 1688 >>,
      << <<50, 0, 100, 0>>, <<562, 60, 1000, 230>>, "#56B900", 3225 >>,
      << <<50, 0, 100, 0>>, <<570, 10, 1000, 140>>, "#5ED900", 1685 >>,
      << <<50, 0, 100, 0>>, <<575, 20, 1000, 210>>, "#56C500", 2620 >>,
      << <<50, 0, 100, 0>>, <<575, 60, 1000, 230>>, "#53B900", 3207 >>,
      << <<50, 0, 100, 0>>, <<588, 20, 1000, 210>>, "#53C500", 2609 >>,
      << <<50, 0, 100, 50>>, <<512, 0, 1000, 522>>, "#3B7A00", 300 >>,
      << <<50, 0, 100, 50>>, <<520, 0, 1000, 545>>, "#387400", 611 >>,
      << <<50, 0, 100, 50>>, <<530, 0, 1000, 540>>, "#377500", 552 >>,
      << <<50, 0, 100, 50>>, <<530, 10, 1000, 580>>, "#326A00", 1132 >>,
      << <<50, 0, 100, 50>>, <<535, 10, 1000, 615>>, "#2E6100", 1620 >>,
      << <<50, 0, 100, 50>>, <<538, 0, 1000, 548>>, "#357300", 653 >>,
      << <<50, 0, 100, 50>>, <<538, 60, 1000, 692>>, "#244A00", 2916 >>,
      << <<50, 0, 100, 50>>, <<545, 0, 1000, 570>>, "#326E00", 911 >>,
      << <<50, 0, 100, 50>>, <<545, 20, 1000, 665>>, "#275400", 2330 >>,
      << <<50, 0, 100, 50>>, <<550, 0, 1000, 575>>, "#316C00", 1015 >>,
      << <<50, 0, 100, 50>>, <<555, 10, 1000, 605>>, "#2D6400", 1441 >>,
      << <<50, 0, 100, 50>>, <<562, 10, 1000, 612>>, "#2B6200", 1543 >>,
      << <<50, 0, 100, 50>>, <<562, 10, 1000, 642>>, "#285A00", 1983 >>,
      << <<50, 0, 100, 50>>, <<562, 60, 1000, 718>>, "#1F4400", 3257 >>,
      << <<50, 0, 100, 50>>, <<570, 10, 1000, 650>>, "#265800", 2086 >>,
      << <<50, 0, 100, 50>>, <<575, 20, 1000, 695>>, "#214C00", 2764 >>,
      << <<50, 0, 100, 50>>, <<575, 60, 1000, 730>>, "#1D4100", 3439 >>,
      << <<50, 0, 100, 50>>, <<588, 20, 1000, 708>>, "#1F4900", 2935 >>,
      << <<50, 0, 100, 100>>, <<512, 0, 1000, 1000>>, "#000000", 0 >>,
      << <<50, 0, 100, 100>>, <<520, 0, 1000, 1000>>, "#000000", 0 >>,
      << <<50, 0, 100, 100>>, <<530, 0, 1000, 1000>>, "#000000", 0 >>,
      << <<50, 0, 100, 100>>, <<530, 10, 1000, 1000>>, "#000000", 0 >>,
      << <<50, 0, 100, 100>>, <<535, 10, 1000, 1000>>, "#000000", 0 >>,
      << <<50, 0, 100, 100>>, <<538, 0, 1000, 1000>>, "#000000", 0 >>,
      << <<50, 0, 100, 100>>, <<538, 60, 1000, 1000>>, "#000000", 0 >>,
      << <<50, 0, 100, 100>>, <<545, 0, 1000, 1000>>, "#000000", 0 >>,
      << <<50, 0, 100, 100>>, <<545, 20, 1000, 1000>>, "#000000", 0 >>,
      << <<50, 0, 100, 100>>, <<550, 0, 1000, 1000>>, "#000000", 0 >>,
      << <<50, 0, 100, 100>>, <<555, 10, 1000, 1000>>, "#000000", 0 >>,
      << <<50, 0, 100, 100>>, <<562, 10, 1000, 1000>>, "#000000", 0 >>,
      << <<50, 0, 100, 100>>, <<562, 60, 1000, 1000>>, "#000000", 0 >>,
      << <<50, 0, 100, 100>>, <<570, 10, 1000, 1000>>, "#000000", 0 >>,
      << <<50, 0, 100, 100>>, <<575, 20, 1000, 1000>>, "#000000", 0 >>,
      << <<50, 0, 100, 100>>, <<575, 60, 1000, 1000>>, "#000000", 0 >>,
      << <<50, 0, 100, 100>>, <<588, 20, 1000, 1000>>, "#000000", 0 >>,
      << <<50, 50, 0, 0>>, <<512, 512, 0, 20>>, "#7A7AFA", 243 >>,
      << <<50, 50, 0, 0>>, <<520, 520, 10, 50>>, "#7474F0", 472 >>,
      << <<50, 50, 0, 0>>, <<530, 530, 0, 20>>, "#7575FA", 566 >>,
      << <<50, 50, 0, 0>>, <<530, 540, 20, 100>>, "#6C6AE1", 904 >>,
      << <<50, 50, 0, 0>>, <<535, 545, 30, 140>>, "#6664D5", 1253 >>,
      << <<50, 50, 0, 0>>, <<538, 538, 0, 20>>, "#7373FA", 703 >>,
      << <<50, 50, 0, 0>>, <<538, 598, 150, 230>>, "#5B4FA7", 2729 >>,
      << <<50, 50, 0, 0>>, <<545, 545, 10, 50>>, "#6E6EF0", 733 >>,
      << <<50, 50, 0, 0>>, <<545, 565, 50, 210>>, "#5C58BF", 1927 >>,
      << <<50, 50, 0, 0>>, <<550, 550, 10, 50>>, "#6D6DF0", 791 >>,
      << <<50, 50, 0, 0>>, <<555, 565, 20, 100>>, "#6664E1", 1072 >>,
      << <<50, 50, 0, 0>>, <<562, 572, 20, 100>>, "#6562E1", 1156 >>,
      << <<50, 50, 0, 0>>, <<562, 572, 30, 140>>, "#605ED5", 1338 >>,
      << <<50, 50, 0, 0>>, <<562, 622, 150, 230>>, "#564AA7", 2667 >>,
      << <<50, 50, 0, 0>>, <<570, 580, 30, 140>>, "#5E5CD5", 1396 >>,
      << <<50, 50, 0, 0>>, <<575, 595, 50, 210>>, "#5652BF", 1946 >>,
      << <<50, 50, 0, 0>>, <<575, 635, 150, 230>>, "#5348A7", 2659 >>,
      << <<50, 50, 0, 0>>, <<588, 608, 50, 210>>, "#534FBF", 1993 >>,
      << <<50, 50, 0, 50>>, <<512, 512, 0, 522>>, "#3B3B7A", 220 >>,
      << <<50, 50, 0, 50>>, <<520, 520, 10, 545>>, "#383873", 443 >>,
      << <<50, 50, 0, 50>>, <<530, 530, 0, 540>>, "#373775", 399 >>,
      << <<50, 50, 0, 50>>, <<530, 540, 20, 580>>, "#323169", 781 >>,
      << <<50, 50, 0, 50>>, <<535, 545, 30, 615>>, "#2E2D5F", 1153 >>,
      << <<50, 50, 0, 50>>, <<538, 538, 0, 548>>, "#353573", 484 >>,
      << <<50, 50, 0, 50>>, <<538, 598, 150, 692>>, "#242043", 2243 >>,
      << <<50, 50, 0, 50>>, <<545, 545, 10, 570>>, "#32326D", 659 >>,
      << <<50, 50, 0, 50>>, <<545, 565, 50, 665>>, "#272551", 1661 >>,
      << <<50, 50, 0, 50>>, <<550, 550, 10, 575>>, "#31316B", 724 >>,
      << <<50, 50, 0, 50>>, <<555, 565, 20, 605>>, "#2D2C63", 994 >>,
      << <<50, 50, 0, 50>>, <<562, 572, 20, 612>>, "#2B2A61", 1070 >>,
      << <<50, 50, 0, 50>>, <<562, 572, 30, 642>>, "#282759", 1346 >>,
      << <<50, 50, 0, 50>>, <<562, 622, 150, 718>>, "#1F1B3D", 2437 >>,
      << <<50, 50, 0, 50>>, <<570, 580, 30, 650>>, "#262557", 1417 >>,
      << <<50, 50, 0, 50>>, <<575, 595, 50, 695>>, "#211F4A", 1896 >>,
      << <<50, 50, 0, 50>>, <<575, 635, 150, 730>>, "#1D193B", 2498 >>,
      << <<50, 50, 0, 50>>, <<588, 608, 50, 708>>, "#1F1D47", 2006 >>,
      << <<50, 50, 0, 100>>, <<512, 512, 0, 1000>>, "#000000", 0 >>,
      << <<50, 50, 0, 100>>, <<520, 520, 10, 1000>>, "#000000", 0 >>,
      << <<50, 50, 0, 100>>, <<530, 530, 0, 1000>>, "#000000", 0 >>,
      << <<50, 50, 0, 100>>, <<530, 540, 20, 1000>>, "#000000", 0 >>,
      << <<50, 50, 0, 100>>, <<535, 545, 30, 1000>>, "#000000", 0 >>,
      << <<50, 50, 0, 100>>, <<538, 538, 0, 1000>>, "#000000", 0 >>,
      << <<50, 50, 0, 100>>, <<538, 598, 150, 1000>>, "#000000", 0 >>,
      << <<50, 50, 0, 100>>, <<545, 545, 10, 1000>>, "#000000", 0 >>,
      << <<50, 50, 0, 100>>, <<545, 565, 50, 1000>>, "#000000", 0 >>,
      << <<50, 50, 0, 100>>, <<550, 550, 10, 1000>>, "#000000", 0 >>,
      << <<50, 50, 0, 100>>, <<555, 565, 20, 1000>>, "#000000", 0 >>,
      << <<50, 50, 0, 100>>, <<562, 572, 20, 1000>>, "#000000", 0 >>,
      << <<50, 50, 0, 100>>, <<562, 572, 30, 1000>>, "#000000", 0 >>,
      << <<50, 50, 0, 100>>, <<562, 622, 150, 1000>>, "#000000", 0 >>,
      << <<50, 50, 0, 100>>, <<570, 580, 30, 1000>>, "#000000", 0 >>,
      << <<50, 50, 0, 100>>, <<575, 595, 50, 1000>>, "#000000", 0 >>,
      << <<50, 50, 0, 100>>, <<575, 635, 150, 1000>>, "#000000", 0 >>,
      << <<50, 50, 0, 100>>, <<588, 608, 50, 1000>>, "#000000", 0 >>,
      << <<50, 50, 50, 0>>, <<512, 512, 512, 20>>, "#7A7A7A", 236 >>,
      << <<50, 50, 50, 0>>, <<520, 520, 530, 50>>, "#747472", 494 >>,
      << <<50, 50, 50, 0>>, <<530, 530, 530, 20>>, "#757575", 435 >>,
      << <<50, 50, 50, 0>>, <<530, 540, 550, 100>>, "#6C6A67", 890 >>,
      << <<50, 50, 50, 0>>, <<535, 545, 565, 140>>, "#66645F", 1160 >>,
      << <<50, 50, 50, 0>>, <<538, 538, 538, 20>>, "#737373", 514 >>,
      << <<50, 50, 50, 0>>, <<538, 598, 688, 230>>, "#5B4F3D", 2305 >>,
      << <<50, 50, 50, 0>>, <<545, 545, 555, 50>>, "#6E6E6C", 730 >>,
      << <<50, 50, 50, 0>>, <<545, 565, 595, 210>>, "#5C5852", 1650 >>,
      << <<50, 50, 50, 0>>, <<550, 550, 560, 50>>, "#6D6D6B", 770 >>,
      << <<50, 50, 50, 0>>, <<555, 565, 575, 100>>, "#666462", 1119 >>,
      << <<50, 50, 50, 0>>, <<562, 572, 582, 100>>, "#656260", 1195 >>,
      << <<50, 50, 50, 0>>, <<562, 572, 592, 140>>, "#605E59", 1401 >>,
      << <<50, 50, 50, 0>>, <<562, 622, 712, 230>>, "#564A39", 2463 >>,
      << <<50, 50, 50, 0>>, <<570, 580, 600, 140>>, "#5E5C58", 1468 >>,
      << <<50, 50, 50, 0>>, <<575, 595, 625, 210>>, "#56524C", 1897 >>,
      << <<50, 50, 50, 0>>, <<575, 635, 725, 230>>, "#534836", 2569 >>,
      << <<50, 50, 50, 0>>, <<588, 608, 638, 210>>, "#534F49", 2022 >>,
      << <<50, 50, 50, 50>>, <<512, 512, 512, 522>>, "#3B3B3B", 222 >>,
      << <<50, 50, 50, 50>>, <<520, 520, 530, 545>>, "#383837", 367 >>,
      << <<50, 50, 50, 50>>, <<530, 530, 530, 540>>, "#373737", 402 >>,
      << <<50, 50, 50, 50>>, <<530, 540, 550, 580>>, "#323130", 675 >>,
      << <<50, 50, 50, 50>>, <<535, 545, 565, 615>>, "#2E2D2B", 871 >>,
      << <<50, 50, 50, 50>>, <<538, 538, 538, 548>>, "#353535", 493 >>,
      << <<50, 50, 50, 50>>, <<538, 598, 688, 692>>, "#242019", 1562 >>,
      << <<50, 50, 50, 50>>, <<545, 545, 555, 570>>, "#323231", 637 >>,
      << <<50, 50, 50, 50>>, <<545, 565, 595, 665>>, "#272523", 1239 >>,
      << <<50, 50, 50, 50>>, <<550, 550, 560, 575>>, "#313130", 683 >>,
      << <<50, 50, 50, 50>>, <<555, 565, 575, 605>>, "#2D2C2B", 906 >>,
      << <<50, 50, 50, 50>>, <<562, 572, 582, 612>>, "#2B2A29", 1000 >>,
      << <<50, 50, 50, 50>>, <<562, 572, 592, 642>>, "#282725", 1152 >>,
      << <<50, 50, 50, 50>>, <<562, 622, 712, 718>>, "#1F1B15", 1775 >>,
      << <<50, 50, 50, 50>>, <<570, 580, 600, 650>>, "#262524", 1237 >>,
      << <<50, 50, 50, 50>>, <<575, 595, 625, 695>>, "#211F1D", 1529 >>,
      << <<50, 50, 50, 50>>, <<575, 635, 725, 730>>, "#1D1913", 1869 >>,
      << <<50, 50, 50, 50>>, <<588, 608, 638, 708>>, "#1F1D1B", 1628 >>,
      << <<50, 50, 50, 100>>, <<512, 512, 512, 1000>>, "#000000", 0 >>,
      << <<50, 50, 50, 100>>, <<520, 520, 530, 1000>>, "#000000", 0 >>,
      << <<50, 50, 50, 100>>, <<530, 530, 530, 1000>>, "#000000", 0 >>,
      << <<50, 50, 50, 100>>, <<530, 540, 550, 1000>>, "#000000", 0 >>,
      << <<50, 50, 50, 100>>, <<535, 545, 565, 1000>>, "#000000", 0 >>,
      << <<50, 50, 50, 100>>, <<538, 538, 538, 1000>>, "#000000", 0 >>,
      << <<50, 50, 50, 100>>, <<538, 598, 688, 1000>>, "#000000", 0 >>,
      << <<50, 50, 50, 100>>, <<545, 545, 555, 1000>>, "#000000", 0 >>,
      << <<50, 50, 50, 100>>, <<545, 565, 595, 1000>>, "#000000", 0 >>,
      << <<50, 50, 50, 100>>, <<550, 550, 560, 1000>>, "#000000", 0 >>,
      << <<50, 50, 50, 100>>, <<555, 565, 575, 1000>>, "#000000", 0 >>,
      << <<50, 50, 50, 100>>, <<562, 572, 582, 1000>>, "#000000", 0 >>,
      << <<50, 50, 50, 100>>, <<562, 572, 592, 1000>>, "#000000", 0 >>,
      << <<50, 50, 50, 100>>, <<562, 622, 712, 1000>>, "#000000", 0 >>,
      << <<50, 50, 50, 100>>, <<570, 580, 600, 1000>>, "#000000", 0 >>,
      << <<50, 50, 50, 100>>, <<575, 595, 625, 1000>>, "#000000", 0 >>,
      << <<50, 50, 50, 100>>, <<575, 635, 725, 1000>>, "#000000", 0 >>,
      << <<50, 50, 50, 100>>, <<588, 608, 638, 1000>>, "#000000", 0 >>,
      << <<50, 50, 100, 0>>, <<512, 512, 1000, 20>>, "#7A7A00", 303 >>,
      << <<50, 50, 100, 0>>, <<520, 520, 1000, 50>>, "#747400", 609 >>,
      << <<50, 50, 100, 0>>, <<530, 530, 1000, 20>>, "#757500", 558 >>,
      << <<50, 50, 100, 0>>, <<530, 540, 1000, 100>>, "#6C6A00", 1117 >>,
      << <<50, 50, 100, 0>>, <<535, 545, 1000, 140>>, "#666400", 1429 >>,
      << <<50, 50, 100, 0>>, <<538, 538, 1000, 20>>, "#737300", 661 >>,
      << <<50, 50, 100, 0>>, <<538, 598, 1000, 230>>, "#5B4F00", 2551 >>,
      << <<50, 50, 100, 0>>, <<545, 545, 1000, 50>>, "#6E6E00", 918 >>,
      << <<50, 50, 100, 0>>, <<545, 565, 1000, 210>>, "#5C5800", 2059 >>,
      << <<50, 50, 100, 0>>, <<550, 550, 1000, 50>>, "#6D6D00", 970 >>,
      << <<50, 50, 100, 0>>, <<555, 565, 1000, 100>>, "#666400", 1429 >>,
      << <<50, 50, 100, 0>>, <<562, 572, 1000, 100>>, "#656200", 1532 >>,
      << <<50, 50, 100, 0>>, <<562, 572, 1000, 140>>, "#605E00", 1746 >>,
      << <<50, 50, 100, 0>>, <<562, 622, 1000, 230>>, "#564A00", 2818 >>,
      << <<50, 50, 100, 0>>, <<570, 580, 1000, 140>>, "#5E5C00", 1852 >>,
      << <<50, 50, 100, 0>>, <<575, 595, 1000, 210>>, "#565200", 2382 >>,
      << <<50, 50, 100, 0>>, <<575, 635, 1000, 230>>, "#534800", 2924 >>,
      << <<50, 50, 100, 0>>, <<588, 608, 1000, 210>>, "#534F00", 2545 >>,
      << <<50, 50, 100, 50>>, <<512, 512, 1000, 522>>, "#3B3B00", 315 >>,
      << <<50, 50, 100, 50>>, <<520, 520, 1000, 545>>, "#383800", 511 >>,
      << <<50, 50, 100, 50>>, <<530, 530, 1000, 540>>, "#373700", 578 >>,
      << <<50, 50, 100, 50>>, <<530, 540, 1000, 580>>, "#323100", 983 >>,
      << <<50, 50, 100, 50>>, <<535, 545, 1000, 615>>, "#2E2D00", 1272 >>,
      << <<50, 50, 100, 50>>, <<538, 538, 1000, 548>>, "#353500", 714 >>,
      << <<50, 50, 100, 50>>, <<538, 598, 1000, 692>>, "#242000", 2259 >>,
      << <<50, 50, 100, 50>>, <<545, 545, 1000, 570>>, "#323200", 922 >>,
      << <<50, 50, 100, 50>>, <<545, 565, 1000, 665>>, "#272500", 1873 >>,
      << <<50, 50, 100, 50>>, <<550, 550, 1000, 575>>, "#313100", 992 >>,
      << <<50, 50, 100, 50>>, <<555, 565, 1000, 605>>, "#2D2C00", 1346 >>,
      << <<50, 50, 100, 50>>, <<562, 572, 1000, 612>>, "#2B2A00", 1496 >>,
      << <<50, 50, 100, 50>>, <<562, 572, 1000, 642>>, "#282700", 1726 >>,
      << <<50, 50, 100, 50>>, <<562, 622, 1000, 718>>, "#1F1B00", 2680 >>,
      << <<50, 50, 100, 50>>, <<570, 580, 1000, 650>>, "#262500", 1883 >>,
      << <<50, 50, 100, 50>>, <<575, 595, 1000, 695>>, "#211F00", 2360 >>,
      << <<50, 50, 100, 50>>, <<575, 635, 1000, 730>>, "#1D1900", 2854 >>,
      << <<50, 50, 100, 50>>, <<588, 608, 1000, 708>>, "#1F1D00", 2529 >>,
      << <<50, 50, 100, 100>>, <<512, 512, 1000, 1000>>, "#000000", 0 >>,
      << <<50, 50, 100, 100>>, <<520, 520, 1000, 1000>>, "#000000", 0 >>,
      << <<50, 50, 100, 100>>, <<530, 530, 1000, 1000>>, "#000000", 0 >>,
      << <<50, 50, 100, 100>>, <<530, 540, 1000, 1000>>, "#000000", 0 >>,
      << <<50, 50, 100, 100>>, <<535, 545, 1000, 1000>>, "#000000", 0 >>,
      << <<50, 50, 100, 100>>, <<538, 538, 1000, 1000>>, "#000000", 0 >>,
      << <<50, 50, 100, 100>>, <<538, 598, 1000, 1000>>, "#000000", 0 >>,
      << <<50, 50, 100, 100>>, <<545, 545, 1000, 1000>>, "#000000", 0 >>,
      << <<50, 50, 100, 100>>, <<545, 565, 1000, 1000>>, "#000000", 0 >>,
      << <<50, 50, 100, 100>>, <<550, 550, 1000, 1000>>, "#000000", 0 >>,
      << <<50, 50, 100, 100>>, <<555, 565, 1000, 1000>>, "#000000", 0 >>,
      << <<50, 50, 100, 100>>, <<562, 572, 1000, 1000>>, "#000000", 0 >>,
      << <<50, 50, 100, 100>>, <<562, 622, 1000, 1000>>, "#000000", 0 >>,
      << <<50, 50, 100, 100>>, <<570, 580, 1000, 1000>>, "#000000", 0 >>,
      << <<50, 50, 100, 100>>, <<575, 595, 1000, 1000>>, "#000000", 0 >>,
      << <<50, 50, 100, 100>>, <<575, 635, 1000, 1000>>, "#000000", 0 >>,
      << <<50, 50, 100, 100>>, <<588, 608, 1000, 1000>>, "#000000", 0 >>,
      << <<50, 100, 0, 0>>, <<512, 1000, 0, 20>>, "#7A00FA", 207 >>,
      << <<50, 100, 0, 0>>, <<520, 1000, 10, 50>>, "#7400F0", 606 >>,
      << <<50, 100, 0, 0>>, <<530, 1000, 0, 20>>, "#7500FA", 264 >>,
      << <<50, 100, 0, 0>>, <<530, 1000, 20, 100>>, "#6C00E1", 1224 >>,
      << <<50, 100, 0, 0>>, <<535, 1000, 30, 140>>, "#6600D5", 1728 >>,
      << <<50, 100, 0, 0>>, <<538, 1000, 0, 20>>, "#7300FA", 297 >>,
      << <<50, 100, 0, 0>>, <<538, 1000, 150, 230>>, "#5B00A7", 3787 >>,
      << <<50, 100, 0, 0>>, <<545, 1000, 10, 50>>, "#6E00F0", 620 >>,
      << <<50, 100, 0, 0>>, <<545, 1000, 50, 210>>, "#5C00BF", 2672 >>,
      << <<50, 100, 0, 0>>, <<550, 1000, 10, 50>>, "#6D00F0", 626 >>,
      << <<50, 100, 0, 0>>, <<555, 1000, 20, 100>>, "#6600E1", 1218 >>,
      << <<50, 100, 0, 0>>, <<562, 1000, 20, 100>>, "#6500E1", 1218 >>,
      << <<50, 100, 0, 0>>, <<562, 1000, 30, 140>>, "#6000D5", 1715 >>,
      << <<50, 100, 0, 0>>, <<562, 1000, 150, 230>>, "#5600A7", 3754 >>,
      << <<50, 100, 0, 0>>, <<570, 1000, 30, 140>>, "#5E00D5", 1713 >>,
      << <<50, 100, 0, 0>>, <<575, 1000, 50, 210>>, "#5600BF", 2651 >>,
      << <<50, 100, 0, 0>>, <<575, 1000, 150, 230>>, "#5300A7", 3738 >>,
      << <<50, 100, 0, 0>>, <<588, 1000, 50, 210>>, "#5300BF", 2643 >>,
      << <<50, 100, 0, 50>>, <<512, 1000, 0, 522>>, "#3B007A", 275 >>,
      << <<50, 100, 0, 50>>, <<520, 1000, 10, 545>>, "#380073", 604 >>,
      << <<50, 100, 0, 50>>, <<530, 1000, 0, 540>>, "#370075", 506 >>,
      << <<50, 100, 0, 50>>, <<530, 1000, 20, 580>>, "#320069", 1078 >>,
      << <<50, 100, 0, 50>>, <<535, 1000, 30, 615>>, "#2E005F", 1568 >>,
      << <<50, 100, 0, 50>>, <<538, 1000, 0, 548>>, "#350073", 599 >>,
      << <<50, 100, 0, 50>>, <<538, 1000, 150, 692>>, "#240043", 3024 >>,
      << <<50, 100, 0, 50>>, <<545, 1000, 10, 570>>, "#32006D", 881 >>,
      << <<50, 100, 0, 50>>, <<545, 1000, 50, 665>>, "#270051", 2265 >>,
      << <<50, 100, 0, 50>>, <<550, 1000, 10, 575>>, "#31006B", 976 >>,
      << <<50, 100, 0, 50>>, <<555, 1000, 20, 605>>, "#2D0063", 1360 >>,
      << <<50, 100, 0, 50>>, <<562, 1000, 20, 612>>, "#2B0061", 1455 >>,
      << <<50, 100, 0, 50>>, <<562, 1000, 30, 642>>, "#280059", 1850 >>,
      << <<50, 100, 0, 50>>, <<562, 1000, 150, 718>>, "#1F003D", 3404 >>,
      << <<50, 100, 0, 50>>, <<570, 1000, 30, 650>>, "#260057", 1946 >>,
      << <<50, 100, 0, 50>>, <<575, 1000, 50, 695>>, "#21004A", 2613 >>,
      << <<50, 100, 0, 50>>, <<575, 1000, 150, 730>>, "#1D003B", 3550 >>,
      << <<50, 100, 0, 50>>, <<588, 1000, 50, 708>>, "#1F0047", 2784 >>,
      << <<50, 100, 0, 100>>, <<512, 1000, 0, 1000>>, "#000000", 0 >>,
      << <<50, 100, 0, 100>>, <<520, 1000, 10, 1000>>, "#000000", 0 >>,
      << <<50, 100, 0, 100>>, <<530, 1000, 0, 1000>>, "#000000", 0 >>,
      << <<50, 100, 0, 100>>, <<530, 1000, 20, 1000>>, "#000000", 0 >>,
      << <<50, 100, 0, 100>>, <<535, 1000, 30, 1000>>, "#000000", 0 >>,
      << <<50, 100, 0, 100>>, <<538, 1000, 0, 1000>>, "#000000", 0 >>,
      << <<50, 100, 0, 100>>, <<538, 1000, 150, 1000>>, "#000000", 0 >>,
      << <<50, 100, 0, 100>>, <<545, 1000, 10, 1000>>, "#000000", 0 >>,
      << <<50, 100, 0, 100>>, <<545, 1000, 50, 1000>>, "#000000", 0 >>,
      << <<50, 100, 0, 100>>, <<550, 1000, 10, 1000>>, "#000000", 0 >>,
      << <<50, 100, 0, 100>>, <<555, 1000, 20, 1000>>, "#000000", 0 >>,
      << <<50, 100, 0, 100>>, <<562, 1000, 20, 1000>>, "#000000", 0 >>,
      << <<50, 100, 0, 100>>, <<562, 1000, 30, 1000>>, "#000000", 0 >>,
      << <<50, 100, 0, 100>>, <<562, 1000, 150, 1000>>, "#000000", 0 >>,
      << <<50, 100, 0, 100>>, <<570, 1000, 30, 1000>>, "#000000", 0 >>,
      << <<50, 100, 0, 100>>, <<575, 1000, 50, 1000>>, "#000000", 0 >>,
      << <<50, 100, 0, 100>>, <<575, 1000, 150, 1000>>, "#000000", 0 >>,
      << <<50, 100, 0, 100>>, <<588, 1000, 50, 1000>>, "#000000", 0 >>,
      << <<50, 100, 50, 0>>, <<512, 1000, 512, 20>>, "#7A007A", 282 >>,
      << <<50, 100, 50, 0>>, <<520, 1000, 530, 50>>, "#740072", 649 >>,
      << <<50, 100, 50, 0>>, <<530, 1000, 530, 20>>, "#750075", 519 >>,
      << <<50, 100, 50, 0>>, <<530, 1000, 550, 100>>, "#6C0067", 1164 >>,
      << <<50, 100, 50, 0>>, <<535, 1000, 565, 140>>, "#66005F", 1545 >>,
      << <<50, 100, 50, 0>>, <<538, 1000, 538, 20>>, "#730073", 614 >>,
      << <<50, 100, 50, 0>>, <<538, 1000, 688, 230>>, "#5B003D", 3286 >>,
      << <<50, 100, 50, 0>>, <<545, 1000, 555, 50>>, "#6E006C", 935 >>,
      << <<50, 100, 50, 0>>, <<545, 1000, 595, 210>>, "#5C0052", 2176 >>,
      << <<50, 100, 50, 0>>, <<550, 1000, 560, 50>>, "#6D006B", 983 >>,
      << <<50, 100, 50, 0>>, <<555, 1000, 575, 100>>, "#660062", 1408 >>,
      << <<50, 100, 50, 0>>, <<562, 1000, 582, 100>>, "#650060", 1501 >>,
      << <<50, 100, 50, 0>>, <<562, 1000, 592, 140>>, "#600059", 1837 >>,
      << <<50, 100, 50, 0>>, <<562, 1000, 712, 230>>, "#560039", 3475 >>,
      << <<50, 100, 50, 0>>, <<570, 1000, 600, 140>>, "#5E0058", 1890 >>,
      << <<50, 100, 50, 0>>, <<575, 1000, 625, 210>>, "#56004C", 2476 >>,
      << <<50, 100, 50, 0>>, <<575, 1000, 725, 230>>, "#530036", 3625 >>,
      << <<50, 100, 50, 0>>, <<588, 1000, 638, 210>>, "#530049", 2628 >>,
      << <<50, 100, 50, 50>>, <<512, 1000, 512, 522>>, "#3B003B", 265 >>,
      << <<50, 100, 50, 50>>, <<520, 1000, 530, 545>>, "#380037", 472 >>,
      << <<50, 100, 50, 50>>, <<530, 1000, 530, 540>>, "#370037", 480 >>,
      << <<50, 100, 50, 50>>, <<530, 1000, 550, 580>>, "#320030", 847 >>,
      << <<50, 100, 50, 50>>, <<535, 1000, 565, 615>>, "#2E002B", 1139 >>,
      << <<50, 100, 50, 50>>, <<538, 1000, 538, 548>>, "#350035", 589 >>,
      << <<50, 100, 50, 50>>, <<538, 1000, 688, 692>>, "#240019", 2461 >>,
      << <<50, 100, 50, 50>>, <<545, 1000, 555, 570>>, "#320031", 798 >>,
      << <<50, 100, 50, 50>>, <<545, 1000, 595, 665>>, "#270023", 1732 >>,
      << <<50, 100, 50, 50>>, <<550, 1000, 560, 575>>, "#310030", 854 >>,
      << <<50, 100, 50, 50>>, <<555, 1000, 575, 605>>, "#2D002B", 1153 >>,
      << <<50, 100, 50, 50>>, <<562, 1000, 582, 612>>, "#2B0029", 1296 >>,
      << <<50, 100, 50, 50>>, <<562, 1000, 592, 642>>, "#280025", 1588 >>,
      << <<50, 100, 50, 50>>, <<562, 1000, 712, 718>>, "#1F0015", 2898 >>,
      << <<50, 100, 50, 50>>, <<570, 1000, 600, 650>>, "#260024", 1704 >>,
      << <<50, 100, 50, 50>>, <<575, 1000, 625, 695>>, "#21001D", 2318 >>,
      << <<50, 100, 50, 50>>, <<575, 1000, 725, 730>>, "#1D0013", 3080 >>,
      << <<50, 100, 50, 50>>, <<588, 1000, 638, 708>>, "#1F001B", 2531 >>,
      << <<50, 100, 50, 100>>, <<512, 1000, 512, 1000>>, "#000000", 0 >>,
      << <<50, 100, 50, 100>>, <<520, 1000, 530, 1000>>, "#000000", 0 >>,
      << <<50, 100, 50, 100>>, <<530, 1000, 530, 1000>>, "#000000", 0 >>,
      << <<50, 100, 50, 100>>, <<530, 1000, 550, 1000>>, "#000000", 0 >>,
      << <<50, 100, 50, 100>>, <<535, 1000, 565, 1000>>, "#000000", 0 >>,
      << <<50, 100, 50, 100>>, <<538, 1000, 538, 1000>>, "#000000", 0 >>,
      << <<50, 100, 50, 100>>, <<538, 1000, 688, 1000>>, "#000000", 0 >>,
      << <<50, 100, 50, 100>>, <<545, 1000, 555, 1000>>, "#000000", 0 >>,
      << <<50, 100, 50, 100>>, <<545, 1000, 595, 1000>>, "#000000", 0 >>,
      << <<50, 100, 50, 100>>, <<550, 1000, 560, 1000>>, "#000000", 0 >>,
      << <<50, 100, 50, 100>>, <<555, 1000, 575, 1000>>, "#000000", 0 >>,
      << <<50, 100, 50, 100>>, <<562, 1000, 582, 1000>>, "#000000", 0 >>,
      << <<50, 100, 50, 100>>, <<562, 1000, 592, 1000>>, "#000000", 0 >>,
      << <<50, 100, 50, 100>>, <<562, 1000, 712, 1000>>, "#000000", 0 >>,
      << <<50, 100, 50, 100>>, <<570, 1000, 600, 1000>>, "#000000", 0 >>,
      << <<50, 100, 50, 100>>, <<575, 1000, 625, 1000>>, "#000000", 0 >>,
      << <<50, 100, 50, 100>>, <<575, 1000, 725, 1000>>, "#000000", 0 >>,
      << <<50, 100, 50, 100>>, <<588, 1000, 638, 1000>>, "#000000", 0 >>,
      << <<50, 100, 100, 0>>, <<512, 1000, 1000, 20>>, "#7A0000", 284 >>,
      << <<50, 100, 100, 0>>, <<520, 1000, 1000, 50>>, "#740000", 572 >>,
      << <<50, 100, 100, 0>>, <<530, 1000, 1000, 20>>, "#750000", 524 >>,
      << <<50, 100, 100, 0>>, <<530, 1000, 1000, 100>>, "#6C0000", 966 >>,
      << <<50, 100, 100, 0>>, <<535, 1000, 1000, 140>>, "#660000", 1267 >>,
      << <<50, 100, 100, 0>>, <<538, 1000, 1000, 20>>, "#730000", 621 >>,
      << <<50, 100, 100, 0>>, <<538, 1000, 1000, 230>>, "#5B0000", 1834 >>,
      << <<50, 100, 100, 0>>, <<545, 1000, 1000, 50>>, "#6E0000", 866 >>,
      << <<50, 100, 100, 0>>, <<545, 1000, 1000, 210>>, "#5C0000", 1782 >>,
      << <<50, 100, 100, 0>>, <<550, 1000, 1000, 50>>, "#6D0000", 916 >>,
      << <<50, 100, 100, 0>>, <<555, 1000, 1000, 100>>, "#660000", 1267 >>,
      << <<50, 100, 100, 0>>, <<562, 1000, 1000, 100>>, "#650000", 1318 >>,
      << <<50, 100, 100, 0>>, <<562, 1000, 1000, 140>>, "#600000", 1574 >>,
      << <<50, 100, 100, 0>>, <<562, 1000, 1000, 230>>, "#560000", 2099 >>,
      << <<50, 100, 100, 0>>, <<570, 1000, 1000, 140>>, "#5E0000", 1678 >>,
      << <<50, 100, 100, 0>>, <<575, 1000, 1000, 210>>, "#560000", 2099 >>,
      << <<50, 100, 100, 0>>, <<575, 1000, 1000, 230>>, "#530000", 2260 >>,
      << <<50, 100, 100, 0>>, <<588, 1000, 1000, 210>>, "#530000", 2260 >>,
      << <<50, 100, 100, 50>>, <<512, 1000, 1000, 522>>, "#3B0000", 291 >>,
      << <<50, 100, 100, 50>>, <<520, 1000, 1000, 545>>, "#380000", 468 >>,
      << <<50, 100, 100, 50>>, <<530, 1000, 1000, 540>>, "#370000", 528 >>,
      << <<50, 100, 100, 50>>, <<530, 1000, 1000, 580>>, "#320000", 841 >>,
      << <<50, 100, 100, 50>>, <<535, 1000, 1000, 615>>, "#2E0000", 1111 >>,
      << <<50, 100, 100, 50>>, <<538, 1000, 1000, 548>>, "#350000", 651 >>,
      << <<50, 100, 100, 50>>, <<538, 1000, 1000, 692>>, "#240000", 1875 >>,
      << <<50, 100, 100, 50>>, <<545, 1000, 1000, 570>>, "#320000", 841 >>,
      << <<50, 100, 100, 50>>, <<545, 1000, 1000, 665>>, "#270000", 1640 >>,
      << <<50, 100, 100, 50>>, <<550, 1000, 1000, 575>>, "#310000", 907 >>,
      << <<50, 100, 100, 50>>, <<555, 1000, 1000, 605>>, "#2D0000", 1182 >>,
      << <<50, 100, 100, 50>>, <<562, 1000, 1000, 612>>, "#2B0000", 1328 >>,
      << <<50, 100, 100, 50>>, <<562, 1000, 1000, 642>>, "#280000", 1559 >>,
      << <<50, 100, 100, 50>>, <<562, 1000, 1000, 718>>, "#1F0000", 2231 >>,
      << <<50, 100, 100, 50>>, <<570, 1000, 1000, 650>>, "#260000", 1720 >>,
      << <<50, 100, 100, 50>>, <<575, 1000, 1000, 695>>, "#210000", 2094 >>,
      << <<50, 100, 100, 50>>, <<575, 1000, 1000, 730>>, "#1D0000", 2359 >>,
      << <<50, 100, 100, 50>>, <<588, 1000, 1000, 708>>, "#1F0000", 2231 >>,
      << <<50, 100, 100, 100>>, <<512, 1000, 1000, 1000>>, "#000000", 0 >>,
      << <<50, 100, 100, 100>>, <<520, 1000, 1000, 1000>>, "#000000", 0 >>,
      << <<50, 100, 100, 100>>, <<530, 1000, 1000, 1000>>, "#000000", 0 >>,
      << <<50, 100, 100, 100>>, <<535, 1000, 1000, 1000>>, "#000000", 0 >>,
      << <<50, 100, 100, 100>>, <<538, 1000, 1000, 1000>>, "#000000", 0 >>,
      << <<50, 100, 100, 100>>, <<545, 1000, 1000, 1000>>, "#000000", 0 >>,
      << <<50, 100, 100, 100>>, <<550, 1000, 1000, 1000>>, "#000000", 0 >>,
      << <<50, 100, 100, 100>>, <<555, 1000, 1000, 1000>>, "#000000", 0 >>,
      << <<50, 100, 100, 100>>, <<562, 1000, 1000, 1000>>, "#000000", 0 >>,
      << <<50, 100, 100, 100>>, <<570, 1000, 1000, 1000>>, "#000000", 0 >>,
      << <<50, 100, 100, 100>>, <<575, 1000, 1000, 1000>>, "#000000", 0 >>,
      << <<50, 100, 100, 100>>, <<588, 1000, 1000, 1000>>, "#000000", 0 >>,
      << <<95, 95, 95, 95>>, <<952, 952, 952, 953>>, "#010101", 0 >>,
      << <<95, 95, 95, 95>>, <<954, 954, 964, 956>>, "#010100", 40 >>,
      << <<95, 95, 95, 95>>, <<956, 956, 956, 957>>, "#000000", 27 >>,
      << <<95, 95, 95, 95>>, <<956, 966, 976, 961>>, "#000000", 27 >>,
      << <<95, 95, 95, 95>>, <<957, 957, 957, 958>>, "#000000", 27 >>,
      << <<95, 95, 95, 95>>, <<957, 967, 987, 983>>, "#000000", 27 >>,
      << <<95, 95, 95, 95>>, <<957, 1000, 1000, 1000>>, "#000000", 27 >>,
      << <<95, 95, 95, 95>>, <<959, 959, 969, 961>>, "#000000", 27 >>,
      << <<95, 95, 95, 95>>, <<959, 979, 1000, 998>>, "#000000", 27 >>,
      << <<95, 95, 95, 95>>, <<960, 960, 970, 962>>, "#000000", 27 >>,
      << <<95, 95, 95, 95>>, <<960, 970, 980, 965>>, "#000000", 27 >>,
      << <<95, 95, 95, 95>>, <<962, 972, 982, 967>>, "#000000", 27 >>,
      << <<95, 95, 95, 95>>, <<962, 972, 992, 988>>, "#000000", 27 >>,
      << <<95, 95, 95, 95>>, <<962, 1000, 1000, 1000>>, "#000000", 27 >>,
      << <<95, 95, 95, 95>>, <<963, 973, 993, 989>>, "#000000", 27 >>,
      << <<95, 95, 95, 95>>, <<964, 984, 1000, 1000>>, "#000000", 27 >>,
      << <<95, 95, 95, 95>>, <<964, 1000, 1000, 1000>>, "#000000", 27 >>,
      << <<95, 95, 95, 95>>, <<967, 987, 1000, 1000>>, "#000000", 27 >>,
      << <<100, 0, 0, 0>>, <<1000, 0, 0, 20>>, "#00FAFA", 176 >>,
      << <<100, 0, 0, 0>>, <<1000, 0, 10, 50>>, "#00F2F0", 466 >>,
      << <<100, 0, 0, 0>>, <<1000, 10, 20, 100>>, "#00E3E1", 995 >>,
      << <<100, 0, 0, 0>>, <<1000, 10, 30, 140>>, "#00D9D5", 1362 >>,
      << <<100, 0, 0, 0>>, <<1000, 20, 50, 210>>, "#00C5BF", 2097 >>,
      << <<100, 0, 0, 0>>, <<1000, 60, 150, 230>>, "#00B9A7", 2691 >>,
      << <<100, 0, 0, 50>>, <<1000, 0, 0, 522>>, "#007A7A", 241 >>,
      << <<100, 0, 0, 50>>, <<1000, 0, 0, 540>>, "#007575", 443 >>,
      << <<100, 0, 0, 50>>, <<1000, 0, 0, 548>>, "#007373", 524 >>,
      << <<100, 0, 0, 50>>, <<1000, 0, 10, 545>>, "#007473", 484 >>,
      << <<100, 0, 0, 50>>, <<1000, 0, 10, 570>>, "#006E6D", 728 >>,
      << <<100, 0, 0, 50>>, <<1000, 0, 10, 575>>, "#006C6B", 810 >>,
      << <<100, 0, 0, 50>>, <<1000, 10, 20, 580>>, "#006A69", 892 >>,
      << <<100, 0, 0, 50>>, <<1000, 10, 20, 605>>, "#006463", 1141 >>,
      << <<100, 0, 0, 50>>, <<1000, 10, 20, 612>>, "#006261", 1224 >>,
      << <<100, 0, 0, 50>>, <<1000, 10, 30, 615>>, "#00615F", 1268 >>,
      << <<100, 0, 0, 50>>, <<1000, 10, 30, 642>>, "#005A59", 1562 >>,
      << <<100, 0, 0, 50>>, <<1000, 10, 30, 650>>, "#005857", 1647 >>,
      << <<100, 0, 0, 50>>, <<1000, 20, 50, 665>>, "#005451", 1820 >>,
      << <<100, 0, 0, 50>>, <<1000, 20, 50, 695>>, "#004C4A", 2164 >>,
      << <<100, 0, 0, 50>>, <<1000, 20, 50, 708>>, "#004947", 2296 >>,
      << <<100, 0, 0, 50>>, <<1000, 60, 150, 692>>, "#004A43", 2281 >>,
      << <<100, 0, 0, 50>>, <<1000, 60, 150, 718>>, "#00443D", 2542 >>,
      << <<100, 0, 0, 50>>, <<1000, 60, 150, 730>>, "#00413B", 2666 >>,
      << <<100, 0, 0, 100>>, <<1000, 0, 0, 1000>>, "#000000", 0 >>,
      << <<100, 0, 0, 100>>, <<1000, 0, 10, 1000>>, "#000000", 0 >>,
      << <<100, 0, 0, 100>>, <<1000, 10, 20, 1000>>, "#000000", 0 >>,
      << <<100, 0, 0, 100>>, <<1000, 10, 30, 1000>>, "#000000", 0 >>,
      << <<100, 0, 0, 100>>, <<1000, 20, 50, 1000>>, "#000000", 0 >>,
      << <<100, 0, 0, 100>>, <<1000, 60, 150, 1000>>, "#000000", 0 >>,
      << <<100, 0, 50, 0>>, <<1000, 0, 512, 20>>, "#00FA7A", 191 >>,
      << <<100, 0, 50, 0>>, <<1000, 0, 530, 20>>, "#00FA75", 350 >>,
      << <<100, 0, 50, 0>>, <<1000, 0, 530, 50>>, "#00F272", 479 >>,
      << <<100, 0, 50, 0>>, <<1000, 0, 538, 20>>, "#00FA73", 432 >>,
      << <<100, 0, 50, 0>>, <<1000, 0, 555, 50>>, "#00F26C", 598 >>,
      << <<100, 0, 50, 0>>, <<1000, 0, 560, 50>>, "#00F26B", 628 >>,
      << <<100, 0, 50, 0>>, <<1000, 10, 550, 100>>, "#00E367", 1022 >>,
      << <<100, 0, 50, 0>>, <<1000, 10, 565, 140>>, "#00D95F", 1397 >>,
      << <<100, 0, 50, 0>>, <<1000, 10, 575, 100>>, "#00E362", 1037 >>,
      << <<100, 0, 50, 0>>, <<1000, 10, 582, 100>>, "#00E360", 1057 >>,
      << <<100, 0, 50, 0>>, <<1000, 10, 592, 140>>, "#00D959", 1402 >>,
      << <<100, 0, 50, 0>>, <<1000, 10, 600, 140>>, "#00D958", 1409 >>,
      << <<100, 0, 50, 0>>, <<1000, 20, 595, 210>>, "#00C552", 2181 >>,
      << <<100, 0, 50, 0>>, <<1000, 20, 625, 210>>, "#00C54C", 2151 >>,
      << <<100, 0, 50, 0>>, <<1000, 20, 638, 210>>, "#00C549", 2149 >>,
      << <<100, 0, 50, 0>>, <<1000, 60, 688, 230>>, "#00B93D", 2612 >>,
      << <<100, 0, 50, 0>>, <<1000, 60, 712, 230>>, "#00B939", 2622 >>,
      << <<100, 0, 50, 0>>, <<1000, 60, 725, 230>>, "#00B936", 2636 >>,
      << <<100, 0, 50, 50>>, <<1000, 0, 512, 522>>, "#007A3B", 248 >>,
      << <<100, 0, 50, 50>>, <<1000, 0, 530, 540>>, "#007537", 459 >>,
      << <<100, 0, 50, 50>>, <<1000, 0, 530, 545>>, "#007437", 510 >>,
      << <<100, 0, 50, 50>>, <<1000, 0, 538, 548>>, "#007335", 540 >>,
      << <<100, 0, 50, 50>>, <<1000, 0, 555, 570>>, "#006E31", 753 >>,
      << <<100, 0, 50, 50>>, <<1000, 0, 560, 575>>, "#006C30", 843 >>,
      << <<100, 0, 50, 50>>, <<1000, 10, 550, 580>>, "#006A30", 949 >>,
      << <<100, 0, 50, 50>>, <<1000, 10, 565, 615>>, "#00612B", 1373 >>,
      << <<100, 0, 50, 50>>, <<1000, 10, 575, 605>>, "#00642B", 1205 >>,
      << <<100, 0, 50, 50>>, <<1000, 10, 582, 612>>, "#006229", 1287 >>,
      << <<100, 0, 50, 50>>, <<1000, 10, 592, 642>>, "#005A25", 1672 >>,
      << <<100, 0, 50, 50>>, <<1000, 10, 600, 650>>, "#005824", 1770 >>,
      << <<100, 0, 50, 50>>, <<1000, 20, 595, 665>>, "#005423", 1986 >>,
      << <<100, 0, 50, 50>>, <<1000, 20, 625, 695>>, "#004C1D", 2351 >>,
      << <<100, 0, 50, 50>>, <<1000, 20, 638, 708>>, "#00491B", 2495 >>,
      << <<100, 0, 50, 50>>, <<1000, 60, 688, 692>>, "#004A19", 2404 >>,
      << <<100, 0, 50, 50>>, <<1000, 60, 712, 718>>, "#004415", 2693 >>,
      << <<100, 0, 50, 50>>, <<1000, 60, 725, 730>>, "#004113", 2839 >>,
      << <<100, 0, 50, 100>>, <<1000, 0, 512, 1000>>, "#000000", 0 >>,
      << <<100, 0, 50, 100>>, <<1000, 0, 530, 1000>>, "#000000", 0 >>,
      << <<100, 0, 50, 100>>, <<1000, 0, 538, 1000>>, "#000000", 0 >>,
      << <<100, 0, 50, 100>>, <<1000, 0, 555, 1000>>, "#000000", 0 >>,
      << <<100, 0, 50, 100>>, <<1000, 0, 560, 1000>>, "#000000", 0 >>,
      << <<100, 0, 50, 100>>, <<1000, 10, 550, 1000>>, "#000000", 0 >>,
      << <<100, 0, 50, 100>>, <<1000, 10, 565, 1000>>, "#000000", 0 >>,
      << <<100, 0, 50, 100>>, <<1000, 10, 575, 1000>>, "#000000", 0 >>,
      << <<100, 0, 50, 100>>, <<1000, 10, 582, 1000>>, "#000000", 0 >>,
      << <<100, 0, 50, 100>>, <<1000, 10, 592, 1000>>, "#000000", 0 >>,
      << <<100, 0, 50, 100>>, <<1000, 10, 600, 1000>>, "#000000", 0 >>,
      << <<100, 0, 50, 100>>, <<1000, 20, 595, 1000>>, "#000000", 0 >>,
      << <<100, 0, 50, 100>>, <<1000, 20, 625, 1000>>, "#000000", 0 >>,
      << <<100, 0, 50, 100>>, <<1000, 20, 638, 1000>>, "#000000", 0 >>,
      << <<100, 0, 50, 100>>, <<1000, 60, 688, 1000>>, "#000000", 0 >>,
      << <<100, 0, 50, 100>>, <<1000, 60, 712, 1000>>, "#000000", 0 >>,
      << <<100, 0, 50, 100>>, <<1000, 60, 725, 1000>>, "#000000", 0 >>,
      << <<100, 0, 100, 0>>, <<1000, 0, 1000, 20>>, "#00FA00", 236 >>,
      << <<100, 0, 100, 0>>, <<1000, 0, 1000, 50>>, "#00F200", 616 >>,
      << <<100, 0, 100, 0>>, <<1000, 10, 1000, 100>>, "#00E300", 1334 >>,
      << <<100, 0, 100, 0>>, <<1000, 10, 1000, 140>>, "#00D900", 1817 >>,
      << <<100, 0, 100, 0>>, <<1000, 20, 1000, 210>>, "#00C500", 2798 >>,
      << <<100, 0, 100, 0>>, <<1000, 60, 1000, 230>>, "#00B900", 3395 >>,
      << <<100, 0, 100, 50>>, <<1000, 0, 1000, 522>>, "#007A00", 323 >>,
      << <<100, 0, 100, 50>>, <<1000, 0, 1000, 540>>, "#007500", 594 >>,
      << <<100, 0, 100, 50>>, <<1000, 0, 1000, 545>>, "#007400", 648 >>,
      << <<100, 0, 100, 50>>, <<1000, 0, 1000, 548>>, "#007300", 703 >>,
      << <<100, 0, 100, 50>>, <<1000, 0, 1000, 570>>, "#006E00", 977 >>,
      << <<100, 0, 100, 50>>, <<1000, 0, 1000, 575>>, "#006C00", 1087 >>,
      << <<100, 0, 100, 50>>, <<1000, 10, 1000, 580>>, "#006A00", 1197 >>,
      << <<100, 0, 100, 50>>, <<1000, 10, 1000, 605>>, "#006400", 1531 >>,
      << <<100, 0, 100, 50>>, <<1000, 10, 1000, 612>>, "#006200", 1643 >>,
      << <<100, 0, 100, 50>>, <<1000, 10, 1000, 615>>, "#006100", 1700 >>,
      << <<100, 0, 100, 50>>, <<1000, 10, 1000, 642>>, "#005A00", 2096 >>,
      << <<100, 0, 100, 50>>, <<1000, 10, 1000, 650>>, "#005800", 2210 >>,
      << <<100, 0, 100, 50>>, <<1000, 20, 1000, 665>>, "#005400", 2440 >>,
      << <<100, 0, 100, 50>>, <<1000, 20, 1000, 695>>, "#004C00", 2908 >>,
      << <<100, 0, 100, 50>>, <<1000, 20, 1000, 708>>, "#004900", 3090 >>,
      << <<100, 0, 100, 50>>, <<1000, 60, 1000, 692>>, "#004A00", 3029 >>,
      << <<100, 0, 100, 50>>, <<1000, 60, 1000, 718>>, "#004400", 3402 >>,
      << <<100, 0, 100, 50>>, <<1000, 60, 1000, 730>>, "#004100", 3595 >>,
      << <<100, 0, 100, 100>>, <<1000, 0, 1000, 1000>>, "#000000", 0 >>,
      << <<100, 0, 100, 100>>, <<1000, 10, 1000, 1000>>, "#000000", 0 >>,
      << <<100, 0, 100, 100>>, <<1000, 20, 1000, 1000>>, "#000000", 0 >>,
      << <<100, 0, 100, 100>>, <<1000, 60, 1000, 1000>>, "#000000", 0 >>,
      << <<100, 50, 0, 0>>, <<1000, 512, 0, 20>>, "#007AFA", 272 >>,
      << <<100, 50, 0, 0>>, <<1000, 520, 10, 50>>, "#0074F0", 483 >>,
      << <<100, 50, 0, 0>>, <<1000, 530, 0, 20>>, "#0075FA", 653 >>,
      << <<100, 50, 0, 0>>, <<1000, 538, 0, 20>>, "#0073FA", 812 >>,
      << <<100, 50, 0, 0>>, <<1000, 540, 20, 100>>, "#006AE1", 915 >>,
      << <<100, 50, 0, 0>>, <<1000, 545, 10, 50>>, "#006EF0", 821 >>,
      << <<100, 50, 0, 0>>, <<1000, 545, 30, 140>>, "#0064D5", 1245 >>,
      << <<100, 50, 0, 0>>, <<1000, 550, 10, 50>>, "#006DF0", 891 >>,
      << <<100, 50, 0, 0>>, <<1000, 565, 20, 100>>, "#0064E1", 1153 >>,
      << <<100, 50, 0, 0>>, <<1000, 565, 50, 210>>, "#0058BF", 1907 >>,
      << <<100, 50, 0, 0>>, <<1000, 572, 20, 100>>, "#0062E1", 1266 >>,
      << <<100, 50, 0, 0>>, <<1000, 572, 30, 140>>, "#005ED5", 1385 >>,
      << <<100, 50, 0, 0>>, <<1000, 580, 30, 140>>, "#005CD5", 1467 >>,
      << <<100, 50, 0, 0>>, <<1000, 595, 50, 210>>, "#0052BF", 1964 >>,
      << <<100, 50, 0, 0>>, <<1000, 598, 150, 230>>, "#004FA7", 2712 >>,
      << <<100, 50, 0, 0>>, <<1000, 608, 50, 210>>, "#004FBF", 2040 >>,
      << <<100, 50, 0, 0>>, <<1000, 622, 150, 230>>, "#004AA7", 2655 >>,
      << <<100, 50, 0, 0>>, <<1000, 635, 150, 230>>, "#0048A7", 2651 >>,
      << <<100, 50, 0, 50>>, <<1000, 512, 0, 522>>, "#003B7A", 226 >>,
      << <<100, 50, 0, 50>>, <<1000, 520, 10, 545>>, "#003873", 434 >>,
      << <<100, 50, 0, 50>>, <<1000, 530, 0, 540>>, "#003775", 410 >>,
      << <<100, 50, 0, 50>>, <<1000, 538, 0, 548>>, "#003573", 501 >>,
      << <<100, 50, 0, 50>>, <<1000, 540, 20, 580>>, "#003169", 772 >>,
      << <<100, 50, 0, 50>>, <<1000, 545, 10, 570>>, "#00326D", 660 >>,
      << <<100, 50, 0, 50>>, <<1000, 545, 30, 615>>, "#002D5F", 1134 >>,
      << <<100, 50, 0, 50>>, <<1000, 550, 10, 575>>, "#00316B", 720 >>,
      << <<100, 50, 0, 50>>, <<1000, 565, 20, 605>>, "#002C63", 989 >>,
      << <<100, 50, 0, 50>>, <<1000, 565, 50, 665>>, "#002551", 1635 >>,
      << <<100, 50, 0, 50>>, <<1000, 572, 20, 612>>, "#002A61", 1069 >>,
      << <<100, 50, 0, 50>>, <<1000, 572, 30, 642>>, "#002759", 1326 >>,
      << <<100, 50, 0, 50>>, <<1000, 580, 30, 650>>, "#002557", 1400 >>,
      << <<100, 50, 0, 50>>, <<1000, 595, 50, 695>>, "#001F4A", 1867 >>,
      << <<100, 50, 0, 50>>, <<1000, 598, 150, 692>>, "#002043", 2227 >>,
      << <<100, 50, 0, 50>>, <<1000, 608, 50, 708>>, "#001D47", 1975 >>,
      << <<100, 50, 0, 50>>, <<1000, 622, 150, 718>>, "#001B3D", 2409 >>,
      << <<100, 50, 0, 50>>, <<1000, 635, 150, 730>>, "#00193B", 2466 >>,
      << <<100, 50, 0, 100>>, <<1000, 512, 0, 1000>>, "#000000", 0 >>,
      << <<100, 50, 0, 100>>, <<1000, 520, 10, 1000>>, "#000000", 0 >>,
      << <<100, 50, 0, 100>>, <<1000, 530, 0, 1000>>, "#000000", 0 >>,
      << <<100, 50, 0, 100>>, <<1000, 538, 0, 1000>>, "#000000", 0 >>,
      << <<100, 50, 0, 100>>, <<1000, 540, 20, 1000>>, "#000000", 0 >>,
      << <<100, 50, 0, 100>>, <<1000, 545, 10, 1000>>, "#000000", 0 >>,
      << <<100, 50, 0, 100>>, <<1000, 545, 30, 1000>>, "#000000", 0 >>,
      << <<100, 50, 0, 100>>, <<1000, 550, 10, 1000>>, "#000000", 0 >>,
      << <<100, 50, 0, 100>>, <<1000, 565, 20, 1000>>, "#000000", 0 >>,
      << <<100, 50, 0, 100>>, <<1000, 565, 50, 1000>>, "#000000", 0 >>,
      << <<100, 50, 0, 100>>, <<1000, 572, 20, 1000>>, "#000000", 0 >>,
      << <<100, 50, 0, 100>>, <<1000, 572, 30, 1000>>, "#000000", 0 >>,
      << <<100, 50, 0, 100>>, <<1000, 580, 30, 1000>>, "#000000", 0 >>,
      << <<100, 50, 0, 100>>, <<1000, 595, 50, 1000>>, "#000000", 0 >>,
      << <<100, 50, 0, 100>>, <<1000, 598, 150, 1000>>, "#000000", 0 >>,
      << <<100, 50, 0, 100>>, <<1000, 608, 50, 1000>>, "#000000", 0 >>,
      << <<100, 50, 0, 100>>, <<1000, 622, 150, 1000>>, "#000000", 0 >>,
      << <<100, 50, 0, 100>>, <<1000, 635, 150, 1000>>, "#000000", 0 >>,
      << <<100, 50, 50, 0>>, <<1000, 512, 512, 20>>, "#007A7A", 241 >>,
      << <<100, 50, 50, 0>>, <<1000, 520, 530, 50>>, "#007472", 493 >>,
      << <<100, 50, 50, 0>>, <<1000, 530, 530, 20>>, "#007575", 443 >>,
      << <<100, 50, 50, 0>>, <<1000, 538, 538, 20>>, "#007373", 524 >>,
      << <<100, 50, 50, 0>>, <<1000, 540, 550, 100>>, "#006A67", 904 >>,
      << <<100, 50, 50, 0>>, <<1000, 545, 555, 50>>, "#006E6C", 733 >>,
      << <<100, 50, 50, 0>>, <<1000, 545, 565, 140>>, "#00645F", 1171 >>,
      << <<100, 50, 50, 0>>, <<1000, 550, 560, 50>>, "#006D6B", 773 >>,
      << <<100, 50, 50, 0>>, <<1000, 565, 575, 100>>, "#006462", 1143 >>,
      << <<100, 50, 50, 0>>, <<1000, 565, 595, 210>>, "#005852", 1676 >>,
      << <<100, 50, 50, 0>>, <<1000, 572, 582, 100>>, "#006260", 1226 >>,
      << <<100, 50, 50, 0>>, <<1000, 572, 592, 140>>, "#005E59", 1415 >>,
      << <<100, 50, 50, 0>>, <<1000, 580, 600, 140>>, "#005C58", 1488 >>,
      << <<100, 50, 50, 0>>, <<1000, 595, 625, 210>>, "#00524C", 1928 >>,
      << <<100, 50, 50, 0>>, <<1000, 598, 688, 230>>, "#004F3D", 2324 >>,
      << <<100, 50, 50, 0>>, <<1000, 608, 638, 210>>, "#004F49", 2055 >>,
      << <<100, 50, 50, 0>>, <<1000, 622, 712, 230>>, "#004A39", 2489 >>,
      << <<100, 50, 50, 0>>, <<1000, 635, 725, 230>>, "#004836", 2599 >>,
      << <<100, 50, 50, 50>>, <<1000, 512, 512, 522>>, "#003B3B", 227 >>,
      << <<100, 50, 50, 50>>, <<1000, 520, 530, 545>>, "#003837", 367 >>,
      << <<100, 50, 50, 50>>, <<1000, 530, 530, 540>>, "#003737", 410 >>,
      << <<100, 50, 50, 50>>, <<1000, 538, 538, 548>>, "#003535", 503 >>,
      << <<100, 50, 50, 50>>, <<1000, 540, 550, 580>>, "#003130", 689 >>,
      << <<100, 50, 50, 50>>, <<1000, 545, 555, 570>>, "#003231", 643 >>,
      << <<100, 50, 50, 50>>, <<1000, 545, 565, 615>>, "#002D2B", 883 >>,
      << <<100, 50, 50, 50>>, <<1000, 550, 560, 575>>, "#003130", 689 >>,
      << <<100, 50, 50, 50>>, <<1000, 565, 575, 605>>, "#002C2B", 925 >>,
      << <<100, 50, 50, 50>>, <<1000, 565, 595, 665>>, "#002523", 1266 >>,
      << <<100, 50, 50, 50>>, <<1000, 572, 582, 612>>, "#002A29", 1021 >>,
      << <<100, 50, 50, 50>>, <<1000, 572, 592, 642>>, "#002725", 1169 >>,
      << <<100, 50, 50, 50>>, <<1000, 580, 600, 650>>, "#002524", 1263 >>,
      << <<100, 50, 50, 50>>, <<1000, 595, 625, 695>>, "#001F1D", 1573 >>,
      << <<100, 50, 50, 50>>, <<1000, 598, 688, 692>>, "#002019", 1592 >>,
      << <<100, 50, 50, 50>>, <<1000, 608, 638, 708>>, "#001D1B", 1693 >>,
      << <<100, 50, 50, 50>>, <<1000, 622, 712, 718>>, "#001B15", 1868 >>,
      << <<100, 50, 50, 50>>, <<1000, 635, 725, 730>>, "#001913", 1990 >>,
      << <<100, 50, 50, 100>>, <<1000, 512, 512, 1000>>, "#000000", 0 >>,
      << <<100, 50, 50, 100>>, <<1000, 520, 530, 1000>>, "#000000", 0 >>,
      << <<100, 50, 50, 100>>, <<1000, 530, 530, 1000>>, "#000000", 0 >>,
      << <<100, 50, 50, 100>>, <<1000, 538, 538, 1000>>, "#000000", 0 >>,
      << <<100, 50, 50, 100>>, <<1000, 540, 550, 1000>>, "#000000", 0 >>,
      << <<100, 50, 50, 100>>, <<1000, 545, 555, 1000>>, "#000000", 0 >>,
      << <<100, 50, 50, 100>>, <<1000, 545, 565, 1000>>, "#000000", 0 >>,
      << <<100, 50, 50, 100>>, <<1000, 550, 560, 1000>>, "#000000", 0 >>,
      << <<100, 50, 50, 100>>, <<1000, 565, 575, 1000>>, "#000000", 0 >>,
      << <<100, 50, 50, 100>>, <<1000, 565, 595, 1000>>, "#000000", 0 >>,
      << <<100, 50, 50, 100>>, <<1000, 572, 582, 1000>>, "#000000", 0 >>,
      << <<100, 50, 50, 100>>, <<1000, 572, 592, 1000>>, "#000000", 0 >>,
      << <<100, 50, 50, 100>>, <<1000, 580, 600, 1000>>, "#000000", 0 >>,
      << <<100, 50, 50, 100>>, <<1000, 595, 625, 1000>>, "#000000", 0 >>,
      << <<100, 50, 50, 100>>, <<1000, 598, 688, 1000>>, "#000000", 0 >>,
      << <<100, 50, 50, 100>>, <<1000, 608, 638, 1000>>, "#000000", 0 >>,
      << <<100, 50, 50, 100>>, <<1000, 622, 712, 1000>>, "#000000", 0 >>,
      << <<100, 50, 50, 100>>, <<1000, 635, 725, 1000>>, "#000000", 0 >>,
      << <<100, 50, 100, 0>>, <<1000, 512, 1000, 20>>, "#007A00", 323 >>,
      << <<100, 50, 100, 0>>, <<1000, 520, 1000, 50>>, "#007400", 648 >>,
      << <<100, 50, 100, 0>>, <<1000, 530, 1000, 20>>, "#007500", 594 >>,
      << <<100, 50, 100, 0>>, <<1000, 538, 1000, 20>>, "#007300", 703 >>,
      << <<100, 50, 100, 0>>, <<1000, 540, 1000, 100>>, "#006A00", 1197 >>,
      << <<100, 50, 100, 0>>, <<1000, 545, 1000, 50>>, "#006E00", 977 >>,
      << <<100, 50, 100, 0>>, <<1000, 545, 1000, 140>>, "#006400", 1531 >>,
      << <<100, 50, 100, 0>>, <<1000, 550, 1000, 50>>, "#006D00", 1032 >>,
      << <<100, 50, 100, 0>>, <<1000, 565, 1000, 100>>, "#006400", 1531 >>,
      << <<100, 50, 100, 0>>, <<1000, 565, 1000, 210>>, "#005800", 2210 >>,
      << <<100, 50, 100, 0>>, <<1000, 572, 1000, 100>>, "#006200", 1643 >>,
      << <<100, 50, 100, 0>>, <<1000, 572, 1000, 140>>, "#005E00", 1869 >>,
      << <<100, 50, 100, 0>>, <<1000, 580, 1000, 140>>, "#005C00", 1982 >>,
      << <<100, 50, 100, 0>>, <<1000, 595, 1000, 210>>, "#005200", 2555 >>,
      << <<100, 50, 100, 0>>, <<1000, 598, 1000, 230>>, "#004F00", 2730 >>,
      << <<100, 50, 100, 0>>, <<1000, 608, 1000, 210>>, "#004F00", 2730 >>,
      << <<100, 50, 100, 0>>, <<1000, 622, 1000, 230>>, "#004A00", 3029 >>,
      << <<100, 50, 100, 0>>, <<1000, 635, 1000, 230>>, "#004800", 3151 >>,
      << <<100, 50, 100, 50>>, <<1000, 512, 1000, 522>>, "#003B00", 336 >>,
      << <<100, 50, 100, 50>>, <<1000, 520, 1000, 545>>, "#003800", 544 >>,
      << <<100, 50, 100, 50>>, <<1000, 530, 1000, 540>>, "#003700", 614 >>,
      << <<100, 50, 100, 50>>, <<1000, 538, 1000, 548>>, "#003500", 757 >>,
      << <<100, 50, 100, 50>>, <<1000, 540, 1000, 580>>, "#003100", 1048 >>,
      << <<100, 50, 100, 50>>, <<1000, 545, 1000, 570>>, "#003200", 974 >>,
      << <<100, 50, 100, 50>>, <<1000, 545, 1000, 615>>, "#002D00", 1349 >>,
      << <<100, 50, 100, 50>>, <<1000, 550, 1000, 575>>, "#003100", 1048 >>,
      << <<100, 50, 100, 50>>, <<1000, 565, 1000, 605>>, "#002C00", 1426 >>,
      << <<100, 50, 100, 50>>, <<1000, 565, 1000, 665>>, "#002500", 2009 >>,
      << <<100, 50, 100, 50>>, <<1000, 572, 1000, 612>>, "#002A00", 1581 >>,
      << <<100, 50, 100, 50>>, <<1000, 572, 1000, 642>>, "#002700", 1830 >>,
      << <<100, 50, 100, 50>>, <<1000, 580, 1000, 650>>, "#002500", 2009 >>,
      << <<100, 50, 100, 50>>, <<1000, 595, 1000, 695>>, "#001F00", 2613 >>,
      << <<100, 50, 100, 50>>, <<1000, 598, 1000, 692>>, "#002000", 2505 >>,
      << <<100, 50, 100, 50>>, <<1000, 608, 1000, 708>>, "#001D00", 2839 >>,
      << <<100, 50, 100, 50>>, <<1000, 622, 1000, 718>>, "#001B00", 3063 >>,
      << <<100, 50, 100, 50>>, <<1000, 635, 1000, 730>>, "#001900", 3273 >>,
      << <<100, 50, 100, 100>>, <<1000, 512, 1000, 1000>>, "#000000", 0 >>,
      << <<100, 50, 100, 100>>, <<1000, 520, 1000, 1000>>, "#000000", 0 >>,
      << <<100, 50, 100, 100>>, <<1000, 530, 1000, 1000>>, "#000000", 0 >>,
      << <<100, 50, 100, 100>>, <<1000, 538, 1000, 1000>>, "#000000", 0 >>,
      << <<100, 50, 100, 100>>, <<1000, 540, 1000, 1000>>, "#000000", 0 >>,
      << <<100, 50, 100, 100>>, <<1000, 545, 1000, 1000>>, "#000000", 0 >>,
      << <<100, 50, 100, 100>>, <<1000, 550, 1000, 1000>>, "#000000", 0 >>,
      << <<100, 50, 100, 100>>, <<1000, 565, 1000, 1000>>, "#000000", 0 >>,
      << <<100, 50, 100, 100>>, <<1000, 572, 1000, 1000>>, "#000000", 0 >>,
      << <<100, 50, 100, 100>>, <<1000, 580, 1000, 1000>>, "#000000", 0 >>,
      << <<100, 50, 100, 100>>, <<1000, 595, 1000, 1000>>, "#000000", 0 >>,
      << <<100, 50, 100, 100>>, <<1000, 598, 1000, 1000>>, "#000000", 0 >>,
      << <<100, 50, 100, 100>>, <<1000, 608, 1000, 1000>>, "#000000", 0 >>,
      << <<100, 50, 100, 100>>, <<1000, 622, 1000, 1000>>, "#000000", 0 >>,
      << <<100, 50, 100, 100>>, <<1000, 635, 1000, 1000>>, "#000000", 0 >>,
      << <<100, 100, 0, 0>>, <<1000, 1000, 0, 20>>, "#0000FA", 212 >>,
      << <<100, 100, 0, 0>>, <<1000, 1000, 10, 50>>, "#0000F0", 638 >>,
      << <<100, 100, 0, 0>>, <<1000, 1000, 20, 100>>, "#0000E1", 1284 >>,
      << <<100, 100, 0, 0>>, <<1000, 1000, 30, 140>>, "#0000D5", 1806 >>,
      << <<100, 100, 0, 0>>, <<1000, 1000, 50, 210>>, "#0000BF", 2779 >>,
      << <<100, 100, 0, 0>>, <<1000, 1000, 150, 230>>, "#0000A7", 3864 >>,
      << <<100, 100, 0, 50>>, <<1000, 1000, 0, 522>>, "#00007A", 290 >>,
      << <<100, 100, 0, 50>>, <<1000, 1000, 0, 540>>, "#000075", 533 >>,
      << <<100, 100, 0, 50>>, <<1000, 1000, 0, 548>>, "#000073", 631 >>,
      << <<100, 100, 0, 50>>, <<1000, 1000, 10, 545>>, "#000073", 631 >>,
      << <<100, 100, 0, 50>>, <<1000, 1000, 10, 570>>, "#00006D", 926 >>,
      << <<100, 100, 0, 50>>, <<1000, 1000, 10, 575>>, "#00006B", 1025 >>,
      << <<100, 100, 0, 50>>, <<1000, 1000, 20, 580>>, "#000069", 1125 >>,
      << <<100, 100, 0, 50>>, <<1000, 1000, 20, 605>>, "#000063", 1425 >>,
      << <<100, 100, 0, 50>>, <<1000, 1000, 20, 612>>, "#000061", 1526 >>,
      << <<100, 100, 0, 50>>, <<1000, 1000, 30, 615>>, "#00005F", 1631 >>,
      << <<100, 100, 0, 50>>, <<1000, 1000, 30, 642>>, "#000059", 1968 >>,
      << <<100, 100, 0, 50>>, <<1000, 1000, 30, 650>>, "#000057", 2087 >>,
      << <<100, 100, 0, 50>>, <<1000, 1000, 50, 665>>, "#000051", 2470 >>,
      << <<100, 100, 0, 50>>, <<1000, 1000, 50, 695>>, "#00004A", 2960 >>,
      << <<100, 100, 0, 50>>, <<1000, 1000, 50, 708>>, "#000047", 3186 >>,
      << <<100, 100, 0, 50>>, <<1000, 1000, 150, 692>>, "#000043", 3502 >>,
      << <<100, 100, 0, 50>>, <<1000, 1000, 150, 718>>, "#00003D", 4007 >>,
      << <<100, 100, 0, 50>>, <<1000, 1000, 150, 730>>, "#00003B", 4182 >>,
      << <<100, 100, 0, 100>>, <<1000, 1000, 0, 1000>>, "#000000", 0 >>,
      << <<100, 100, 0, 100>>, <<1000, 1000, 10, 1000>>, "#000000", 0 >>,
      << <<100, 100, 0, 100>>, <<1000, 1000, 20, 1000>>, "#000000", 0 >>,
      << <<100, 100, 0, 100>>, <<1000, 1000, 30, 1000>>, "#000000", 0 >>,
      << <<100, 100, 0, 100>>, <<1000, 1000, 50, 1000>>, "#000000", 0 >>,
      << <<100, 100, 0, 100>>, <<1000, 1000, 150, 1000>>, "#000000", 0 >>,
      << <<100, 100, 50, 0>>, <<1000, 1000, 512, 20>>, "#00007A", 290 >>,
      << <<100, 100, 50, 0>>, <<1000, 1000, 530, 20>>, "#000075", 533 >>,
      << <<100, 100, 50, 0>>, <<1000, 1000, 530, 50>>, "#000072", 680 >>,
      << <<100, 100, 50, 0>>, <<1000, 1000, 538, 20>>, "#000073", 631 >>,
      << <<100, 100, 50, 0>>, <<1000, 1000, 550, 100>>, "#000067", 1225 >>,
      << <<100, 100, 50, 0>>, <<1000, 1000, 555, 50>>, "#00006C", 976 >>,
      << <<100, 100, 50, 0>>, <<1000, 1000, 560, 50>>, "#00006B", 1025 >>,
      << <<100, 100, 50, 0>>, <<1000, 1000, 565, 140>>, "#00005F", 1631 >>,
      << <<100, 100, 50, 0>>, <<1000, 1000, 575, 100>>, "#000062", 1475 >>,
      << <<100, 100, 50, 0>>, <<1000, 1000, 582, 100>>, "#000060", 1578 >>,
      << <<100, 100, 50, 0>>, <<1000, 1000, 592, 140>>, "#000059", 1968 >>,
      << <<100, 100, 50, 0>>, <<1000, 1000, 595, 210>>, "#000052", 2403 >>,
      << <<100, 100, 50, 0>>, <<1000, 1000, 600, 140>>, "#000058", 2027 >>,
      << <<100, 100, 50, 0>>, <<1000, 1000, 625, 210>>, "#00004C", 2815 >>,
      << <<100, 100, 50, 0>>, <<1000, 1000, 638, 210>>, "#000049", 3035 >>,
      << <<100, 100, 50, 0>>, <<1000, 1000, 688, 230>>, "#00003D", 4007 >>,
      << <<100, 100, 50, 0>>, <<1000, 1000, 712, 230>>, "#000039", 4354 >>,
      << <<100, 100, 50, 0>>, <<1000, 1000, 725, 230>>, "#000036", 4609 >>,
      << <<100, 100, 50, 50>>, <<1000, 1000, 512, 522>>, "#00003B", 440 >>,
      << <<100, 100, 50, 50>>, <<1000, 1000, 530, 540>>, "#000037", 787 >>,
      << <<100, 100, 50, 50>>, <<1000, 1000, 530, 545>>, "#000037", 787 >>,
      << <<100, 100, 50, 50>>, <<1000, 1000, 538, 548>>, "#000035", 957 >>,
      << <<100, 100, 50, 50>>, <<1000, 1000, 550, 580>>, "#000030", 1373 >>,
      << <<100, 100, 50, 50>>, <<1000, 1000, 555, 570>>, "#000031", 1291 >>,
      << <<100, 100, 50, 50>>, <<1000, 1000, 560, 575>>, "#000030", 1373 >>,
      << <<100, 100, 50, 50>>, <<1000, 1000, 565, 615>>, "#00002B", 1778 >>,
      << <<100, 100, 50, 50>>, <<1000, 1000, 575, 605>>, "#00002B", 1778 >>,
      << <<100, 100, 50, 50>>, <<1000, 1000, 582, 612>>, "#000029", 1938 >>,
      << <<100, 100, 50, 50>>, <<1000, 1000, 592, 642>>, "#000025", 2254 >>,
      << <<100, 100, 50, 50>>, <<1000, 1000, 595, 665>>, "#000023", 2411 >>,
      << <<100, 100, 50, 50>>, <<1000, 1000, 600, 650>>, "#000024", 2332 >>,
      << <<100, 100, 50, 50>>, <<1000, 1000, 625, 695>>, "#00001D", 2879 >>,
      << <<100, 100, 50, 50>>, <<1000, 1000, 638, 708>>, "#00001B", 3035 >>,
      << <<100, 100, 50, 50>>, <<1000, 1000, 688, 692>>, "#000019", 3190 >>,
      << <<100, 100, 50, 50>>, <<1000, 1000, 712, 718>>, "#000015", 3474 >>,
      << <<100, 100, 50, 50>>, <<1000, 1000, 725, 730>>, "#000013", 3601 >>,
      << <<100, 100, 50, 100>>, <<1000, 1000, 512, 1000>>, "#000000", 0 >>,
      << <<100, 100, 50, 100>>, <<1000, 1000, 530, 1000>>, "#000000", 0 >>,
      << <<100, 100, 50, 100>>, <<1000, 1000, 538, 1000>>, "#000000", 0 >>,
      << <<100, 100, 50, 100>>, <<1000, 1000, 550, 1000>>, "#000000", 0 >>,
      << <<100, 100, 50, 100>>, <<1000, 1000, 555, 1000>>, "#000000", 0 >>,
      << <<100, 100, 50, 100>>, <<1000, 1000, 560, 1000>>, "#000000", 0 >>,
      << <<100, 100, 50, 100>>, <<1000, 1000, 565, 1000>>, "#000000", 0 >>,
      << <<100, 100, 50, 100>>, <<1000, 1000, 575, 1000>>, "#000000", 0 >>,
      << <<100, 100, 50, 100>>, <<1000, 1000, 582, 1000>>, "#000000", 0 >>,
      << <<100, 100, 50, 100>>, <<1000, 1000, 592, 1000>>, "#000000", 0 >>,
      << <<100, 100, 50, 100>>, <<1000, 1000, 595, 1000>>, "#000000", 0 >>,
      << <<100, 100, 50, 100>>, <<1000, 1000, 600, 1000>>, "#000000", 0 >>,
      << <<100, 100, 50, 100>>, <<1000, 1000, 625, 1000>>, "#000000", 0 >>,
      << <<100, 100, 50, 100>>, <<1000, 1000, 638, 1000>>, "#000000", 0 >>,
      << <<100, 100, 50, 100>>, <<1000, 1000, 688, 1000>>, "#000000", 0 >>,
      << <<100, 100, 50, 100>>, <<1000, 1000, 712, 1000>>, "#000000", 0 >>,
      << <<100, 100, 50, 100>>, <<1000, 1000, 725, 1000>>, "#000000", 0 >>,
      << <<100, 100, 100, 0>>, <<1000, 1000, 1000, 20>>, "#000000", 0 >>,
      << <<100, 100, 100, 0>>, <<1000, 1000, 1000, 50>>, "#000000", 0 >>,
      << <<100, 100, 100, 0>>, <<1000, 1000, 1000, 100>>, "#000000", 0 >>,
      << <<100, 100, 100, 0>>, <<1000, 1000, 1000, 140>>, "#000000", 0 >>,
      << <<100, 100, 100, 0>>, <<1000, 1000, 1000, 210>>, "#000000", 0 >>,
      << <<100, 100, 100, 0>>, <<1000, 1000, 1000, 230>>, "#000000", 0 >>,
      << <<100, 100, 100, 50>>, <<1000, 1000, 1000, 522>>, "#000000", 0 >>,
      << <<100, 100, 100, 50>>, <<1000, 1000, 1000, 540>>, "#000000", 0 >>,
      << <<100, 100, 100, 50>>, <<1000, 1000, 1000, 545>>, "#000000", 0 >>,
      << <<100, 100, 100, 50>>, <<1000, 1000, 1000, 548>>, "#000000", 0 >>,
      << <<100, 100, 100, 50>>, <<1000, 1000, 1000, 570>>, "#000000", 0 >>,
      << <<100, 100, 100, 50>>, <<1000, 1000, 1000, 575>>, "#000000", 0 >>,
      << <<100, 100, 100, 50>>, <<1000, 1000, 1000, 580>>, "#000000", 0 >>,
      << <<100, 100, 100, 50>>, <<1000, 1000, 1000, 605>>, "#000000", 0 >>,
      << <<100, 100, 100, 50>>, <<1000, 1000, 1000, 612>>, "#000000", 0 >>,
      << <<100, 100, 100, 50>>, <<1000, 1000, 1000, 615>>, "#000000", 0 >>,
      << <<100, 100, 100, 50>>, <<1000, 1000, 1000, 642>>, "#000000", 0 >>,
      << <<100, 100, 100, 50>>, <<1000, 1000, 1000, 650>>, "#000000", 0 >>,
      << <<100, 100, 100, 50>>, <<1000, 1000, 1000, 665>>, "#000000", 0 >>,
      << <<100, 100, 100, 50>>, <<1000, 1000, 1000, 692>>, "#000000", 0 >>,
      << <<100, 100, 100, 50>>, <<1000, 1000, 1000, 695>>, "#000000", 0 >>,
      << <<100, 100, 100, 50>>, <<1000, 1000, 1000, 708>>, "#000000", 0 >>,
      << <<100, 100, 100, 50>>, <<1000, 1000, 1000, 718>>, "#000000", 0 >>,
      << <<100, 100, 100, 50>>, <<1000, 1000, 1000, 730>>, "#000000", 0 >>,
      << <<100, 100, 100, 100>>, <<1000, 1000, 1000, 1000>>, "#000000", 0 >> }

\* The row of cmyk_to_rgb(sim)["hex"] and color_delta_e(orig, sim)["delta_e"]
SimulatedRow(orig, sim) ==
    CHOOSE row \in SimulatedTable : row[1] = orig /\ row[2] = sim

\* The range check cmyk_to_rgb and color_delta_e make on the simulated
\* channels, named c, m, y, k by the one and c2, m2, y2, k2 by the other
TenthsOutOfRange(sim, names) ==
    IF \A i \in 1..4 : 0 <= sim[i] /\ sim[i] <= 1000 THEN None
    ELSE LET i == CHOOSE j \in 1..4 :
                      /\ ~(0 <= sim[j] /\ sim[j] <= 1000)
                      /\ \A h \in 1..(j - 1) : 0 <= sim[h] /\ sim[h] <= 1000
         IN  Some(Raise(names[i] \o " must be between 0 and 100, got "
                        \o FloatStr(10 * sim[i])))

\* The bands of the warning, de in hundredths; the dash of the source text
\* (U+2014) is written "--".
ShiftWarning(de) ==
    IF de < 300 THEN "Minimal color shift -- output should closely match proof."
    ELSE IF de < 600
    THEN "Noticeable color shift -- consider adjusting ink density or substrate."
    ELSE IF de < 1000
    THEN "Significant color shift -- substrate compensation curves recommended."
    ELSE "Severe color shift -- this substrate may not be suitable for color-critical work."

\* From `# Convert to HEX` on: the two conversions, the Delta E, the result
SimulatorResult(cmyk, sim, substrate, print_method, gain, absorption_k, tint) ==
    IF ~IsNone(TenthsOutOfRange(sim, ChannelNames))
    THEN Val(TenthsOutOfRange(sim, ChannelNames))
    ELSE IF ~IsNone(TenthsOutOfRange(sim, <<"c2", "m2", "y2", "k2">>))
    THEN Val(TenthsOutOfRange(sim, <<"c2", "m2", "y2", "k2">>))
    ELSE Ok([original  |-> [c |-> cmyk[1], m |-> cmyk[2], y |-> cmyk[3], k |-> cmyk[4],
                            hex |-> cmyk_to_rgb(cmyk[1], cmyk[2], cmyk[3], cmyk[4]).value.hex],
             simulated |-> [c |-> sim[1], m |-> sim[2], y |-> sim[3], k |-> sim[4],
                            hex |-> SimulatedRow(cmyk, sim)[3]],
             substrate |-> substrate,
             print_method |-> print_method,
             adjustments |-> [dot_gain_applied |-> gain,
                              absorption_k_added |-> absorption_k,
                              tint_offsets |-> tint],
             delta_e_from_original |-> SimulatedRow(cmyk, sim)[4],
             warning |-> ShiftWarning(SimulatedRow(cmyk, sim)[4])])

\* After the validation: profile, gain and the steps
Simulation(cmyk, substrate, print_method, profile, gain) ==
    SimulatorResult(cmyk,
                    SimulatedChannels(cmyk, gain, profile.absorption * (100 - cmyk[4]),
                                      profile.tint),
                    substrate, print_method, gain,
                    profile.absorption * (100 - cmyk[4]), profile.tint)

\* substrate_simulator(c=, m=, y=, k=, substrate=, print_method=), the two
\* names lower-cased
SimulatorOf(cmyk, substrate, print_method) ==
    IF ~IsNone(FirstOutOfRange(cmyk))
    THEN Raise(Val(FirstOutOfRange(cmyk)).error \o ".")
    ELSE IF substrate \notin DOMAIN _SUBSTRATES
    THEN Raise("Unknown substrate: " \o repr(substrate) \o ". Must be one of "
               \o "['glossy_coated', 'kraft', 'matte_coated', 'newsprint', 'recycled', 'uncoated'].")
    ELSE IF print_method \notin substrate_VALID_METHODS
    THEN Raise("Unknown print_method: " \o repr(print_method)
               \o ". Must be one of ['digital', 'flexo', 'offset'].")
    ELSE Simulation(cmyk, substrate, print_method, _SUBSTRATES[substrate],
                    _SUBSTRATES[substrate].dot_gain[print_method])

substrate_simulator(a) ==
    SimulatorOf(a.cmyk, lower(a.substrate), lower(a.print_method))

\* Arguments given to substrate_simulator: every channel at 0, 50 and 100,
\* two mixed colours, on every substrate with every method; then calls with
\* a channel out of range, an unknown substrate or an unknown method.
SubstrateArgs ==
    LET levels == {0, 50, 100}
        colours == (levels \X levels \X levels \X levels)
                   \cup {<<95, 95, 95, 95>>, <<40, 30, 20, 10>>}
        valid == [cmyk : colours,
                  substrate : {"glossy_coated", "matte_coated", "uncoated",
                               "newsprint", "Kraft", "recycled"},
                  print_method : {"offset", "Digital", "flexo"}]
        good  == [cmyk |-> <<40, 30, 20, 10>>, substrate |-> "uncoated",
                  print_method |-> "offset"]
    IN  valid
        \cup { [good EXCEPT !.cmyk = <<0, 101, 0, 0>>],
               [good EXCEPT !.cmyk = <<0, 0, 0, 0 - 1>>],
               [good EXCEPT !.substrate = "vellum"],
               [good EXCEPT !.print_method = "gravure"],
               [good EXCEPT !.cmyk = <<101, 0, 0, 0>>, !.substrate = "vellum"] }

-----------------------------------------------------------------------------
(* The program: one call at a time (Idle), each returning before the next. *)

NoCall == [op |-> "none"]
Idle == call = NoCall

InitWith(datasets) ==
    /\ dataset \in datasets
    /\ _DB = None
    /\ call = NoCall
    /\ ret = Ok(<<>>)
    /\ trace = [path |-> "none"]
    /\ loads = 0
    /\ pc = [t \in Threads |-> "idle"]

Init == InitWith(Datasets)

\* The list _load_db returns: the cache, filled from the file when it is None.
_load_db == IF IsNone(_DB) THEN dataset ELSE Val(_DB)

LoadCount_Uncached == loads + 1

\* The reads of the file after a call of _load_db: one more when _DB is None.
LoadCount == IF IsNone(_DB) THEN loads + 1 ELSE loads

PantoneToCmyk(pantone_name) ==
    LET done == pantone_to_cmyk(_load_db, pantone_name)
    IN  /\ call' = [op |-> "pantone_to_cmyk", pantone_name |-> pantone_name]
        /\ _DB' = Some(_load_db)
        /\ loads' = LoadCount
        /\ ret' = done.ret
        /\ trace' = done.trace
        /\ UNCHANGED <<dataset, pc>>

SearchLoads_Always(target) == TRUE

\* Whether pantone_search gets as far as `for entry in _load_db()`: only
\* with a target, the errors being raised above that line.
SearchLoads(target) == target.ok

PantoneSearch(args) ==
    LET target == TargetOfArgs[args]
        done   == RankedMatches(_load_db, target.value, args.limit)
    IN  /\ call' = [op |-> "pantone_search", hex_color |-> args.hex_color,
                    cmyk |-> args.cmyk, limit |-> args.limit]
        /\ IF SearchLoads(target)
           THEN /\ _DB' = Some(_load_db)
                /\ loads' = LoadCount
           ELSE UNCHANGED <<_DB, loads>>
        /\ IF target.ok
           THEN /\ ret' = done.ret
                /\ trace' = done.trace
           ELSE /\ ret' = target
                /\ trace' = [path |-> "invalid"]
        /\ UNCHANGED <<dataset, pc>>

CmykToRgb(cmyk) ==
    /\ call' = [op |-> "cmyk_to_rgb", cmyk |-> cmyk]
    /\ ret' = cmyk_to_rgb(cmyk[1], cmyk[2], cmyk[3], cmyk[4])
    /\ trace' = [path |-> "convert"]
    /\ UNCHANGED <<dataset, _DB, loads, pc>>

HexToRgb(hex_color) ==
    /\ call' = [op |-> "_hex_to_rgb", hex_color |-> hex_color]
    /\ ret' = _hex_to_rgb(hex_color)
    /\ trace' = [path |-> "parse"]
    /\ UNCHANGED <<dataset, _DB, loads, pc>>

\* color_delta_e; the trace holds the colours converted to Lab, none when
\* the range check raises.
ColorDeltaE(cmyk1, cmyk2) ==
    LET done == color_delta_e(cmyk1, cmyk2)
    IN  /\ call' = [op |-> "color_delta_e", cmyk1 |-> cmyk1, cmyk2 |-> cmyk2]
        /\ ret' = done
        /\ trace' = [path      |-> "delta",
                     converted |-> IF done.ok THEN <<cmyk1, cmyk2>> ELSE <<>>]
        /\ UNCHANGED <<dataset, _DB, loads, pc>>

\* spot_color_separator; the cache is filled by the first colour that gets
\* to _find_nearest_pantone.
SpotColorSeparator(args) ==
    LET done == spot_color_separator(_load_db, args.colors, args.threshold)
    IN  /\ call' = [op |-> "spot_color_separator", colors |-> args.colors,
                    threshold |-> args.threshold]
        /\ IF done.nearest > 0
           THEN /\ _DB' = Some(_load_db)
                /\ loads' = LoadCount
           ELSE UNCHANGED <<_DB, loads>>
        /\ ret' = done.ret
        /\ trace' = [path |-> "separate", nearest |-> done.nearest]
        /\ UNCHANGED <<dataset, pc>>

ReturnsEntryItself_Aliased == TRUE

\* Whether a match handed to the caller is the dict of the entry in _DB: it
\* is not, each match being written as a new dict literal.
ReturnsEntryItself == FALSE

\* The caller assigns to the "c" of the match it got (the first match of a
\* search): the write lands in that dict, and in _DB only if the dict is
\* the entry's own.
CallerWrites ==
    LET first   == IF call.op = "pantone_to_cmyk" THEN ret.value
                   ELSE ret.value.matches[1]
        written == [first EXCEPT !.c = 1]
        db      == Val(_DB)
    IN  /\ call.op \in {"pantone_to_cmyk", "pantone_search"}
        /\ ret.ok
        /\ call.op = "pantone_search" => ret.value.matches # <<>>
        /\ call' = [op |-> "caller_write", of |-> call.op]
        /\ ret' = Ok(IF call.op = "pantone_to_cmyk" THEN written
                     ELSE [ret.value EXCEPT !.matches[1] = written])
        /\ _DB' = IF ReturnsEntryItself
                  THEN Some([i \in DOMAIN db |->
                                IF db[i].name = first.name
                                THEN [db[i] EXCEPT !.c = 1] ELSE db[i]])
                  ELSE _DB
        /\ UNCHANGED <<dataset, trace, loads, pc>>

\* The call is over: the caller has its result and may call again.
Return ==
    /\ ~Idle
    /\ call' = NoCall
    /\ ret' = Ok(<<>>)
    /\ trace' = [path |-> "none"]
    /\ UNCHANGED <<dataset, _DB, loads, pc>>

Resolve == Idle /\ \E q \in Queries : PantoneToCmyk(q)
Search == Idle /\ \E args \in SearchArgs : PantoneSearch(args)
Convert == Idle /\ \E cmyk \in SampleCmyk : CmykToRgb(cmyk)
Parse == Idle /\ \E h \in HexStrings : HexToRgb(h)
Compare == Idle /\ \E pair \in DeltaArgs : ColorDeltaE(pair[1], pair[2])
Separate == Idle /\ \E args \in SpotArgs : SpotColorSeparator(args)

Next ==
    Resolve \/ Search \/ Convert \/ Parse \/ Compare \/ Separate \/ CallerWrites
    \/ Return

Spec == Init /\ [][Next]_vars

\* The tools of the press room, which do not use the database
PreflightCheck(a) ==
    /\ call' = [op |-> "preflight_check", args |-> a]
    /\ ret' = preflight_check(a)
    /\ trace' = [path |-> "preflight"]
    /\ UNCHANGED <<dataset, _DB, loads, pc>>

Preflight == Idle /\ \E a \in PreflightArgs : PreflightCheck(a)

SubstrateSimulator(a) ==
    /\ call' = [op |-> "substrate_simulator", args |-> a]
    /\ ret' = substrate_simulator(a)
    /\ trace' = [path |-> "simulate"]
    /\ UNCHANGED <<dataset, _DB, loads, pc>>

Simulate == Idle /\ \E a \in SubstrateArgs : SubstrateSimulator(a)

InitRgb == InitWith({Pool})

NextPress == Preflight \/ Simulate \/ Return
SpecPress == InitRgb /\ [][NextPress]_vars

\* cmyk_to_rgb alone, over the grid of channel values
ConvertGrid == Idle /\ \E cmyk \in GridCmyk : CmykToRgb(cmyk)
NextRgb == ConvertGrid \/ Return
SpecRgb == InitRgb /\ [][NextRgb]_vars

\* pantone_to_cmyk over datasets in which two names share a key
InitTwins == InitWith(TwinDatasets)
NextTwins == Resolve \/ Return
SpecTwins == InitTwins /\ [][NextTwins]_vars

\* pantone_to_cmyk over datasets with a colour whose name ends in c, u or m
InitCream == InitWith(CreamDatasets)
SpecCream == InitCream /\ [][NextTwins]_vars

\* Calls made by several threads at once, each through _load_db, with a
\* step for each point where the interpreter can switch threads: the test
\* `if _DB is None`, the open and json.load, the assignment to _DB, the
\* return of _DB to the caller, which computes its result from it.  Here
\* call and ret hold one call and one result for each thread.
ThreadCalls ==
    { [op |-> "pantone_to_cmyk", pantone_name |-> "485"],
      [op |-> "pantone_to_cmyk", pantone_name |-> "6 black"],
      [op |-> "pantone_search", hex_color |-> None,
       cmyk |-> <<Some(0), Some(95), Some(100), Some(0)>>, limit |-> 1],
      [op |-> "pantone_search", hex_color |-> Some("#000000"),
       cmyk |-> NoCmyk, limit |-> 2] }

\* What the call c returns when _load_db gives it the list db
ResultOf(db, c) ==
    IF c.op = "pantone_to_cmyk"
    THEN pantone_to_cmyk(db, c.pantone_name).ret
    ELSE RankedMatches(db,
                       TargetOfArgs[[hex_color |-> c.hex_color, cmyk |-> c.cmyk,
                                     limit |-> c.limit]].value,
                       c.limit).ret

InitThreads ==
    /\ dataset \in Datasets
    /\ _DB = None
    /\ call = [t \in Threads |-> NoCall]
    /\ ret = [t \in Threads |-> Ok(<<>>)]
    /\ trace = [path |-> "none"]
    /\ loads = 0
    /\ pc = [t \in Threads |-> "idle"]

Step(t, from, to) == pc[t] = from /\ pc' = [pc EXCEPT ![t] = to]

LoadTest(t) ==
    /\ Step(t, "idle", IF IsNone(_DB) THEN "read" ELSE "return")
    /\ \E c \in ThreadCalls : call' = [call EXCEPT ![t] = c]
    /\ UNCHANGED <<dataset, _DB, ret, trace, loads>>

LoadRead(t) ==
    /\ Step(t, "read", "store")
    /\ loads' = loads + 1
    /\ UNCHANGED <<dataset, _DB, call, ret, trace>>

json_load_Partial(file) == SubSeq(file, 1, Len(file) - 1)

\* json.load(f): the whole list, built before it is assigned
json_load(file) == file

LoadStore(t) ==
    /\ Step(t, "store", "return")
    /\ _DB' = Some(json_load(dataset))
    /\ UNCHANGED <<dataset, call, ret, trace, loads>>

LoadReturn(t) ==
    /\ Step(t, "return", "done")
    /\ ret' = [ret EXCEPT ![t] = ResultOf(Val(_DB), call[t])]
    /\ UNCHANGED <<dataset, _DB, call, trace, loads>>

ThreadStep ==
    \E t \in Threads : LoadTest(t) \/ LoadRead(t) \/ LoadStore(t) \/ LoadReturn(t)

SpecThreads == InitThreads /\ [][ThreadStep]_vars

-----------------------------------------------------------------------------
(* Properties.  A call is observed between its action and Return: call     *)
(* holds the arguments, ret the result, trace what the call did.           *)

Resolved == call.op = "pantone_to_cmyk"
Searched == call.op = "pantone_search"
Converted == call.op = "cmyk_to_rgb"

Positions == 1..Len(dataset)
InDataset(e) == \E i \in Positions : dataset[i] = e
PositionOf(name) == CHOOSE i \in Positions : dataset[i].name = name
Named(name) == \E i \in Positions : dataset[i].name = name

\* The result is the entry e with its colour: same name, same c, m, y, k.
IsEntry(match, e) ==
    /\ match.name = e.name
    /\ <<match.c, match.m, match.y, match.k>> = <<e.c, e.m, e.y, e.k>>

Entry485C == Entry("Pantone 485 C", 0, 95, 100, 0)

QueriesFor485C ==
    { "Pantone 485 C", "pantone 485 c", "485C", "pantone 485", "485 coated" }

\* C1: on a dataset that holds the entry "Pantone 485 C" (0, 95, 100, 0),
\* each of the five spellings "Pantone 485 C", "pantone 485 c", "485C",
\* "pantone 485" and "485 coated" resolves to that entry, whatever other
\* entries (the U and M variants of 485 among them) the dataset holds.
C1_SpellingsResolveTo485C ==
    (Resolved /\ call.pantone_name \in QueriesFor485C /\ InDataset(Entry485C))
        => (ret.ok /\ IsEntry(ret.value, Entry485C))

\* "pantone 485" resolved on a dataset that lists the U and M variants
\* before the C variant.
C1_Witness ==
    /\ Resolved
    /\ call.pantone_name = "pantone 485"
    /\ Len(dataset) >= 3
    /\ dataset[1].name = "Pantone 485 U"
    /\ dataset[2].name = "Pantone 485 M"
    /\ dataset[3] = Entry485C
    /\ ret.ok
    /\ ret.value.name = "Pantone 485 C"

\* The index keys of the dataset and the candidates of the call's query.
DatasetKeys == {KeyOfName[dataset[i].name] : i \in Positions}
CallCandidates == CandidatesOf[call.pantone_name]
Hits == {j \in 1..Len(CallCandidates) : CallCandidates[j] \in DatasetKeys}
FirstOf(S) == CHOOSE j \in S : \A h \in S : j <= h
EntryOfKey(key) ==
    dataset[CHOOSE i \in Positions : KeyOfName[dataset[i].name] = key]

\* C2: when some candidate of the query is an index key, pantone_to_cmyk
\* probes the candidates in the order _expand_query produced them, stops at
\* the first one that is a key and returns that key's entry: no later
\* candidate is probed and no entry is fuzzy-scored.
C2_FirstHitInOrderWins ==
    (Resolved /\ Hits # {})
        => /\ trace.path = "exact"
           /\ trace.probed = SubSeq(CallCandidates, 1, FirstOf(Hits))
           /\ trace.scored = <<>>
           /\ ret.ok
           /\ IsEntry(ret.value, EntryOfKey(CallCandidates[FirstOf(Hits)]))

\* A query with several candidates that are keys of different entries,
\* answered from the first of them after an earlier candidate missed.
C2_Witness ==
    /\ Resolved
    /\ Cardinality(Hits) >= 2
    /\ FirstOf(Hits) >= 2
    /\ \E j \in Hits : EntryOfKey(CallCandidates[j]) # EntryOfKey(CallCandidates[FirstOf(Hits)])
    /\ ret.ok
    /\ ret.value.name = EntryOfKey(CallCandidates[FirstOf(Hits)]).name

\* The fuzzy score of the call's query against the entry at position i.
ScoreAt(i) == ScoreOf[<<call.pantone_name, dataset[i].name>>]
Half == Frac(1, 2)
MaxScoreReachesHalf == \E i \in Positions : FracGe(ScoreAt(i), Half)
HasMaxScore(i) == \A j \in Positions : FracGe(ScoreAt(i), ScoreAt(j))

\* What both forms of C3 share: with no candidate in the index the call
\* succeeds exactly when the maximum score over the dataset is >= 0.5, and
\* then with an entry of maximum score; otherwise it raises "Unknown
\* Pantone color".
FallbackDecision ==
    /\ ret.ok <=> MaxScoreReachesHalf
    /\ ret.ok => /\ Named(ret.value.name)
                 /\ HasMaxScore(PositionOf(ret.value.name))
                 /\ IsEntry(ret.value, dataset[PositionOf(ret.value.name)])
    /\ ~ret.ok => startswith(ret.error, "Unknown Pantone color: ")

\* C3 (as amended): when no candidate is an index key, pantone_to_cmyk returns
\* an entry of maximum fuzzy score if and only if that maximum is >= 0.5;
\* otherwise it raises the unknown-colour error, whose text contains repr()
\* of the query: the query in quotes with tab, backslash and quote escaped.
C3_FallbackEchoesRepr ==
    (Resolved /\ Hits = {})
        => /\ FallbackDecision
           /\ ~ret.ok => Contains(ret.error, repr(call.pantone_name))

\* C3 (as claimed): the same, with the error text containing the query itself.
C3_FallbackEchoesQuery ==
    (Resolved /\ Hits = {})
        => /\ FallbackDecision
           /\ ~ret.ok => Contains(ret.error, call.pantone_name)

\* A query holding a tab that no entry matches, on a dataset with entries.
C3_Witness ==
    /\ Resolved
    /\ call.pantone_name = "Pantone\t99999"
    /\ Len(dataset) >= 1
    /\ Hits = {}
    /\ ~ret.ok
    /\ Contains(ret.error, "'Pantone\\t99999'")

\* C4: when the fuzzy fallback returns an entry, no entry before it in the
\* dataset has a score as high: among entries sharing the maximum score the
\* first in dataset order is returned.
C4_FuzzyTieFirstInDataset ==
    (Resolved /\ Hits = {} /\ ret.ok)
        => /\ Named(ret.value.name)
           /\ HasMaxScore(PositionOf(ret.value.name))
           /\ \A j \in 1..(PositionOf(ret.value.name) - 1) :
                  ~FracGe(ScoreAt(j), ScoreAt(PositionOf(ret.value.name)))

\* A fuzzy answer where a later entry has the same, maximum, score.
C4_Witness ==
    /\ Resolved
    /\ trace.path = "fuzzy"
    /\ ret.ok
    /\ \E j \in Positions :
           /\ j > PositionOf(ret.value.name)
           /\ FracEq(ScoreAt(j), ScoreAt(PositionOf(ret.value.name)))

\* The arguments of the search call and the matches and distances it gave.
HexGiven == ~IsNone(call.hex_color)
CmykComplete == \A i \in 1..4 : ~IsNone(call.cmyk[i])
CmykInRange == \A i \in 1..4 : 0 <= Val(call.cmyk[i]) /\ Val(call.cmyk[i]) <= 100

\* "#RGB" or "#RRGGBB": three or six hexadecimal digits after the "#"s.
WellFormedHex(h) ==
    LET d == LstripHash(h)
    IN  Len(d) \in {3, 6} /\ \A i \in 1..Len(d) : IsHexDigit(CharAt(d, i))

ValidTarget ==
    \/ HexGiven /\ call.cmyk = NoCmyk /\ WellFormedHex(Val(call.hex_color))
    \/ ~HexGiven /\ CmykComplete /\ CmykInRange

CallArgs == [hex_color |-> call.hex_color, cmyk |-> call.cmyk, limit |-> call.limit]
DistanceOf(e) == LabDistance2(TargetOfArgs[CallArgs].value.lab, LabOfEntry[e])
Matches == ret.value.matches
Distances == trace.distances
MatchNames == {Matches[i].name : i \in 1..Len(Matches)}

\* C5: for a valid target and a limit >= 0, pantone_search returns exactly
\* min(limit, N) matches of the N entries (5 by default when N >= 5, all N
\* when limit > N); they are distinct entries of the dataset, none of the
\* entries left out is nearer to the target than a match, and the distances
\* of the matches never decrease along the list.
C5_NearestAscendingUpToLimit ==
    (Searched /\ ValidTarget /\ call.limit >= 0)
        => /\ ret.ok
           /\ Len(Matches) = Min2(call.limit, Len(dataset))
           /\ Len(Distances) = Len(Matches)
           /\ \A i \in 1..Len(Matches) :
                  /\ Named(Matches[i].name)
                  /\ IsEntry(Matches[i], dataset[PositionOf(Matches[i].name)])
                  /\ Distances[i] = DistanceOf(dataset[PositionOf(Matches[i].name)])
           /\ \A i, j \in 1..Len(Matches) : i # j => Matches[i].name # Matches[j].name
           /\ \A i \in 1..(Len(Matches) - 1) : Distances[i] <= Distances[i + 1]
           /\ \A p \in Positions :
                  dataset[p].name \notin MatchNames
                      => \A i \in 1..Len(Matches) : Distances[i] <= DistanceOf(dataset[p])

\* "#FF0000" searched with a limit of 2 on five entries: two matches, others
\* left out, the second match farther than the first.
C5_Witness ==
    /\ Searched
    /\ call.hex_color = Some("#FF0000")
    /\ call.limit = 2
    /\ Len(dataset) = 5
    /\ ret.ok
    /\ Len(Matches) = 2
    /\ Distances[1] < Distances[2]

\* C6: matches at equal distance from the target appear in dataset order.
C6_TiesKeepDatasetOrder ==
    (Searched /\ ret.ok)
        => \A i, j \in 1..Len(Matches) :
               (i < j /\ Distances[i] = Distances[j])
                   => PositionOf(Matches[i].name) < PositionOf(Matches[j].name)

\* A search whose result holds two entries at the same distance.
C6_Witness ==
    /\ Searched
    /\ ret.ok
    /\ \E i, j \in 1..Len(Matches) :
           /\ i < j
           /\ Distances[i] = Distances[j]
           /\ Matches[i].name = "Pantone Black 6 C"
           /\ Matches[j].name = "Pantone Black C"

\* A search by the CMYK values of the dataset entry e, with limit 1.
SelfSearch(e) ==
    /\ Searched
    /\ ~HexGiven
    /\ call.limit = 1
    /\ call.cmyk = <<Some(e.c), Some(e.m), Some(e.y), Some(e.k)>>
    /\ InDataset(e)

\* The first entry of the dataset that converts to the Lab value of e.
FirstRenderedAs(e) ==
    dataset[FirstOf({p \in Positions : LabOfEntry[dataset[p]] = LabOfEntry[e]})]

\* C7 (as amended): a search by the CMYK values of a dataset entry E with
\* limit 1 returns a single match at distance 0, the first entry in dataset
\* order that converts to the same Lab value as E: E itself unless such an
\* entry comes before E.
C7_SelfSearchFirstSameColour ==
    \A e \in PoolEntries :
        SelfSearch(e)
            => /\ ret.ok
               /\ Len(Matches) = 1
               /\ Distances[1] = 0
               /\ IsEntry(Matches[1], FirstRenderedAs(e))

\* C7 (as claimed): the single match is E itself, at distance 0.
C7_SelfSearchReturnsSelf ==
    \A e \in PoolEntries :
        SelfSearch(e)
            => /\ ret.ok
               /\ Len(Matches) = 1
               /\ Distances[1] = 0
               /\ IsEntry(Matches[1], e)

\* The tested search, (0, 95, 100, 0) with limit 1, on a dataset where
\* "Pantone 485 C" is not the first entry.
C7_Witness ==
    /\ SelfSearch(Entry485C)
    /\ Len(dataset) >= 2
    /\ dataset[1] # Entry485C
    /\ ret.ok
    /\ Matches[1].name = "Pantone 485 C"

\* C8: pantone_search raises, and so returns no matches, when no hex is given
\* and the CMYK tuple is incomplete or absent, when no hex is given and a
\* complete CMYK tuple has a channel outside [0, 100], and when the hex
\* string given is malformed.
C8_InvalidSearchInputFails ==
    (Searched /\ \/ ~HexGiven /\ ~CmykComplete
                 \/ ~HexGiven /\ CmykComplete /\ ~CmykInRange
                 \/ HexGiven /\ ~WellFormedHex(Val(call.hex_color)))
        => ~ret.ok

\* C9: a search given both a hex string and a complete CMYK tuple raises, and
\* every search that succeeds was given exactly one of the two.
C9_HexAndCmykExclusive ==
    Searched
        => /\ (HexGiven /\ CmykComplete) => ~ret.ok
           /\ ret.ok => (HexGiven /\ call.cmyk = NoCmyk) \/ (~HexGiven /\ CmykComplete)

\* The value of an uppercase hexadecimal digit, -1 for any other character.
UpperHexValue(ch) == IndexIn(HexDigitsUpper, ch) - 1

\* hex is "#" and six uppercase hexadecimal digits, two for each of r, g, b.
HexOfRgb(hex, r, g, b) ==
    /\ Len(hex) = 7
    /\ CharAt(hex, 1) = "#"
    /\ \A i \in 2..7 : UpperHexValue(CharAt(hex, i)) >= 0
    /\ 16 * UpperHexValue(CharAt(hex, 2)) + UpperHexValue(CharAt(hex, 3)) = r
    /\ 16 * UpperHexValue(CharAt(hex, 4)) + UpperHexValue(CharAt(hex, 5)) = g
    /\ 16 * UpperHexValue(CharAt(hex, 6)) + UpperHexValue(CharAt(hex, 7)) = b

\* C10: cmyk_to_rgb raises the out-of-range error whenever one of c, m, y, k
\* is below 0 or above 100; with all four in [0, 100] it returns r, g and b
\* in 0..255 and hex equal to "#" followed by r, g and b as two uppercase
\* hexadecimal digits each.
C10_RangeCheckedRgbAndHex ==
    Converted
        => IF \E i \in 1..4 : call.cmyk[i] < 0 \/ call.cmyk[i] > 100
           THEN /\ ~ret.ok
                /\ Contains(ret.error, " must be between 0 and 100")
           ELSE /\ ret.ok
                /\ {ret.value.r, ret.value.g, ret.value.b} \subseteq 0..255
                /\ HexOfRgb(ret.value.hex, ret.value.r, ret.value.g, ret.value.b)

\* A conversion whose green channel is below 16 and needs its leading zero.
C10_Witness ==
    /\ Converted
    /\ call.cmyk = <<0, 95, 100, 0>>
    /\ ret.ok
    /\ ret.value.hex = "#FF0D00"

\* v is an integer nearest to 255 * (1 - ink/100) * (1 - k/100), that is to
\* 255 * (100 - ink) * (100 - k) / 10000: twice the error is at most 1.
NearestToProduct(v, ink, k) ==
    LET n == 255 * (100 - ink) * (100 - k)
        e == 10000 * v - n
    IN  2 * e <= 10000 /\ 2 * (0 - e) <= 10000

\* C11: for valid integer channels cmyk_to_rgb returns r, g, b as the
\* rounded values of 255 * (1 - c/100) * (1 - k/100), with m for g and y
\* for b; (0,0,0,100) gives #000000, (0,0,0,0) gives #FFFFFF and
\* (100,0,0,0) gives #00FFFF.
C11_ChannelsAreRoundedProducts ==
    (Converted /\ \A i \in 1..4 : 0 <= call.cmyk[i] /\ call.cmyk[i] <= 100)
        => /\ ret.ok
           /\ NearestToProduct(ret.value.r, call.cmyk[1], call.cmyk[4])
           /\ NearestToProduct(ret.value.g, call.cmyk[2], call.cmyk[4])
           /\ NearestToProduct(ret.value.b, call.cmyk[3], call.cmyk[4])
           /\ call.cmyk = <<0, 0, 0, 100>> => ret.value.hex = "#000000"
           /\ call.cmyk = <<0, 0, 0, 0>> => ret.value.hex = "#FFFFFF"
           /\ call.cmyk = <<100, 0, 0, 0>> => ret.value.hex = "#00FFFF"

\* A conversion whose red channel has a fractional part above one half:
\* 255 * 0.67 * 0.87 = 148.6395 gives 149.
C11_Witness ==
    /\ Converted
    /\ call.cmyk = <<33, 95, 40, 13>>
    /\ ret.ok
    /\ ret.value.r = 149

Parsed == call.op = "_hex_to_rgb"

\* The channel a pair of hexadecimal digits stands for
PairValue(hi, lo) == 16 * HexValue(hi) + HexValue(lo)

\* What a well-formed string stands for: #RGB with each digit doubled, #RRGGBB
\* as written
ChannelsOf(h) ==
    LET d == LstripHash(h)
    IN  IF Len(d) = 3
        THEN <<PairValue(CharAt(d, 1), CharAt(d, 1)),
               PairValue(CharAt(d, 2), CharAt(d, 2)),
               PairValue(CharAt(d, 3), CharAt(d, 3))>>
        ELSE <<PairValue(CharAt(d, 1), CharAt(d, 2)),
               PairValue(CharAt(d, 3), CharAt(d, 4)),
               PairValue(CharAt(d, 5), CharAt(d, 6))>>

\* C12: _hex_to_rgb accepts exactly the strings with three or six hexadecimal
\* digits (in either case) after the "#", returning the three channels they
\* stand for, each in 0..255 and the three-digit form doubled; a string of
\* another length or with a character that is no hexadecimal digit fails with
\* the invalid-format error.
C12_AcceptsExactlyHexForms ==
    Parsed
        => IF WellFormedHex(call.hex_color)
           THEN /\ ret.ok
                /\ ret.value = ChannelsOf(call.hex_color)
                /\ \A i \in 1..3 : ret.value[i] \in 0..MaxRgb
           ELSE ret = InvalidHex(call.hex_color)

Compared == call.op = "color_delta_e"
BothInRange == \A i \in 1..4 : InRange(call.cmyk1[i]) /\ InRange(call.cmyk2[i])
Rated(word) == SubSeq(ret.value.interpretation, 1, Len(word)) = word

\* C13: color_delta_e of two CMYK colours in range succeeds; a colour against
\* itself gives delta_e 0.0 and "excellent"; the interpretation is "excellent"
\* for a delta_e below 1, "good" below 3, "fair" below 6 and "poor" from 6 on
\* (delta_e in hundredths); white against black is "poor".
C13_DeltaEBands ==
    (Compared /\ BothInRange)
        => /\ ret.ok
           /\ call.cmyk1 = call.cmyk2 => ret.value.delta_e = 0 /\ Rated("excellent")
           /\ ret.value.delta_e < 100 <=> Rated("excellent")
           /\ (100 <= ret.value.delta_e /\ ret.value.delta_e < 300) <=> Rated("good")
           /\ (300 <= ret.value.delta_e /\ ret.value.delta_e < 600) <=> Rated("fair")
           /\ 600 <= ret.value.delta_e <=> Rated("poor")
           /\ (call.cmyk1 = <<0, 0, 0, 0>> /\ call.cmyk2 = <<0, 0, 0, 100>>)
                  => Rated("poor")

C13_Witness ==
    /\ Compared
    /\ call.cmyk1 = <<0, 95, 100, 0>>
    /\ call.cmyk2 = <<0, 88, 100, 0>>
    /\ ret.ok
    /\ ret.value.delta_e = 226
    /\ Rated("good")

\* C14: when several threads call _load_db while _DB is None, the dataset is
\* read and parsed at most once, whatever the interleaving.
C14_ConcurrentLoadAtMostOnce == loads <= 1

Separated == call.op = "spot_color_separator"
Loaded == ~IsNone(_DB)

\* C15: in a sequential run the first call of _load_db reads the dataset and
\* every later one, from pantone_to_cmyk, pantone_search or
\* spot_color_separator, returns the cached list, the dataset's entries in
\* their order, without another read: the file is read once when the cache is
\* filled and never after, and a filled cache never changes.
C15_LoadedOnceThenCached ==
    [][ /\ Loaded' => Val(_DB') = dataset /\ loads' = 1
        /\ ~Loaded' => loads' = 0
        /\ Loaded => _DB' = _DB /\ loads' = loads ]_vars

\* spot_color_separator took two colours through _load_db, with one read
C15_Witness ==
    /\ Separated
    /\ ret.ok
    /\ trace.nearest = 2
    /\ Loaded
    /\ loads = 1

\* The words of a query in lower case, one space between them
RECURSIVE JoinWords(_)
JoinWords(words) ==
    IF words = <<>> THEN ""
    ELSE IF Len(words) = 1 THEN words[1]
    ELSE words[1] \o " " \o JoinWords(Tail(words))

NormalizedQuery(raw) == JoinWords(split(lower(raw)))

IsPrefix(p, seq) == Len(p) <= Len(seq) /\ SubSeq(seq, 1, Len(p)) = p

SuffixTokens == {"c", "u", "m", "coated", "uncoated", "matte"}

\* The last word of the query is a suffix token
EndsInSuffixToken(raw) ==
    LET words == split(lower(raw))
    IN  words # <<>> /\ words[Len(words)] \in SuffixTokens

\* The candidates for the suffix s: the query with s, then its
\* pantone-prefixed form unless the query starts with pantone
WithSuffix(raw, s) ==
    <<NormalizedQuery(raw \o " " \o s)>>
    \o (IF startswith(NormalizedQuery(raw), "pantone") THEN <<>>
        ELSE <<NormalizedQuery("pantone " \o raw \o " " \o s)>>)

ExpectedSuffixCandidates(raw) ==
    WithSuffix(raw, "c") \o WithSuffix(raw, "u") \o WithSuffix(raw, "m")

\* C17: for every query whose last word is no suffix token (c, u, m, coated,
\* uncoated, matte), also one whose last word merely ends in c, u or m as
\* "cream" does, the candidates end with the query followed by c, by u and by
\* m, each followed by its pantone-prefixed form when the query does not
\* start with pantone.
C17_SuffixesAppendedUnlessSuffixToken ==
    (Resolved /\ trace.path # "exact" /\ ~EndsInSuffixToken(call.pantone_name))
        => LET expected == ExpectedSuffixCandidates(call.pantone_name)
               n        == Len(trace.probed)
           IN  /\ Len(expected) <= n
               /\ SubSeq(trace.probed, n - Len(expected) + 1, n) = expected

\* C18: every score _fuzzy_score gives the fuzzy fallback is a number (no
\* division by zero) between 0 and 1: the substring bonus never lifts it
\* above 1.0 and nothing makes it negative.
C18_ScoreInUnitInterval ==
    (Resolved /\ trace.path # "exact")
        => \A i \in Positions :
               /\ ScoreAt(i).den > 0
               /\ 0 <= ScoreAt(i).num
               /\ ScoreAt(i).num <= ScoreAt(i).den

\* Both words of "6 black" are in "Pantone Black 6 C" and the bonus applies:
\* 1.0 + 0.3, capped.
C18_Witness ==
    /\ Resolved
    /\ call.pantone_name = "6 black"
    /\ trace.path = "fuzzy"
    /\ \E i \in Positions :
           /\ dataset[i].name = "Pantone Black 6 C"
           /\ FracEq(ScoreAt(i), Frac(1, 1))
    /\ ret.ok
    /\ ret.value.name = "Pantone Black 6 C"

Tokens(s) == SetOf(split(lower(s)))
Meaningful(s) == Tokens(s) \ {"pantone", "c", "u", "m"}
Larger(S, T) == IF Cardinality(S) >= Cardinality(T) THEN Cardinality(S) ELSE Cardinality(T)

CoreWithin(query, name) ==
    \/ Contains(JoinSorted(Meaningful(name)), JoinSorted(Meaningful(query)))
    \/ Contains(JoinSorted(Meaningful(query)), JoinSorted(Meaningful(name)))

\* The reference scorer, in tenths of the larger set's size: ten times the
\* overlap, three times the size more for the bonus, at most ten times the size
ReferenceScore(query, name) ==
    LET size   == Larger(Meaningful(query), Meaningful(name))
        plain  == 10 * Cardinality(Meaningful(query) \cap Meaningful(name))
        raised == IF CoreWithin(query, name) THEN plain + 3 * size ELSE plain
    IN  IF Meaningful(query) = {}
        THEN Frac(Cardinality(Tokens(query) \cap Tokens(name)),
                  Larger(Tokens(query), Tokens(name)))
        ELSE Frac(IF raised > 10 * size THEN 10 * size ELSE raised, 10 * size)

\* C19: every score of the fuzzy fallback equals the reference scorer: for a
\* query of noise words only the overlap of the full token sets over the
\* larger of them, without bonus; otherwise the overlap of the meaningful
\* tokens over the larger meaningful set, plus 0.3 when one side's sorted
\* joined meaningful tokens are within the other's, capped at 1.0.
C19_ScoreEqualsReference ==
    (Resolved /\ trace.path # "exact")
        => \A i \in Positions :
               LET reference == ReferenceScore(call.pantone_name, dataset[i].name)
               IN  /\ reference.den > 0
                   /\ FracEq(ScoreAt(i), reference)

\* "485 9" against "Pantone 485 C": 1/2 and the bonus
C19_Witness ==
    /\ Resolved
    /\ call.pantone_name = "485 9"
    /\ trace.path = "fuzzy"
    /\ dataset # <<>>
    /\ dataset[1].name = "Pantone 485 C"
    /\ FracEq(ScoreAt(1), Frac(4, 5))
    /\ ret.ok
    /\ ret.value.name = "Pantone 485 C"

\* C20: a pantone_search or color_delta_e call that fails on its input has
\* done nothing else: the cache is as it was before the call, loaded or not,
\* with no read of the dataset, and no distance and no Lab conversion has
\* been produced.
C20_ValidationFailsBeforeWork ==
    [][ (Idle /\ call'.op \in {"pantone_search", "color_delta_e"} /\ ~ret'.ok)
            => /\ _DB' = _DB
               /\ loads' = loads
               /\ IF call'.op = "pantone_search"
                  THEN trace'.path = "invalid"
                  ELSE trace'.converted = <<>> ]_vars

\* A search with a CMYK value out of range failed and the dataset is still
\* not loaded
C20_Witness ==
    /\ Searched
    /\ ~HexGiven
    /\ CmykComplete
    /\ ~CmykInRange
    /\ ~ret.ok
    /\ ~Loaded
    /\ loads = 0

CallerWrote == call.op = "caller_write"

\* C21: whatever calls are made, succeeding or failing, and whatever the
\* caller then writes into a match it was given, a loaded cache holds the
\* dataset's entries, with their values and in their order, and no step
\* changes it.
C21_CacheNeverChanges ==
    [][ /\ Loaded => _DB' = _DB
        /\ Loaded' => Val(_DB') = dataset' ]_vars

\* The caller changed the match it was given; the cache still holds the
\* entry as loaded
C21_Witness ==
    /\ CallerWrote
    /\ call.of = "pantone_to_cmyk"
    /\ ret.value.name = "Pantone 485 C"
    /\ ret.value.c = 1
    /\ Loaded
    /\ Val(_DB) = dataset
    /\ Entry485C \in SetOf(Val(_DB))

\* C22: under every interleaving of concurrent pantone_to_cmyk and
\* pantone_search calls, also of calls that start while another is still
\* loading, a call is given the whole dataset by _load_db, never an unset or
\* partly filled cache, and returns what it returns when run alone.
C22_ConcurrentCallsSeeWholeDataset ==
    \A t \in Threads :
        /\ pc[t] \in {"return", "done"} => Loaded /\ Val(_DB) = dataset
        /\ pc[t] = "done" => ret[t] = ResultOf(dataset, call[t])

\* Both threads loaded, the second starting before the first had stored,
\* and both have their results
C22_Witness ==
    /\ \A t \in Threads : pc[t] = "done"
    /\ loads >= 2
    /\ call[1].op = "pantone_to_cmyk"
    /\ ret[1].ok
    /\ call[2].op = "pantone_search"
    /\ ret[2].ok
    /\ ret[2].value.matches # <<>>

Preflighted == call.op = "preflight_check"

\* The arguments pass the validation of preflight_check
ValidPreflight(a) ==
    /\ lower(a.target_method) \in {"offset", "digital", "flexo", "gravure", "screen"}
    /\ lower(a.color_mode) \in {"cmyk", "rgb", "grayscale", "spot"}
    /\ a.resolution_dpi > 0 /\ a.width_mm > 0 /\ a.height_mm > 0
    /\ a.bleed_mm >= 0 /\ a.total_ink_coverage_percent >= 0

CheckNames ==
    <<"color_mode", "resolution", "bleed", "fonts", "ink_coverage", "transparency">>

StatusesOf(result) == {result.checks[i].status : i \in 1..Len(result.checks)}

\* The summary reads p passed, w warnings, f failed, with p + w + f = 6
SummaryCounts(result, p, w, f) ==
    /\ p + w + f = 6
    /\ result.summary = NatToStr(p) \o " passed, " \o NatToStr(w) \o " warnings, "
                        \o NatToStr(f) \o " failed out of 6 checks."

\* C23: for every valid input preflight_check runs exactly six checks, its
\* overall status is the worst of their statuses ("fail" iff a check fails,
\* "warning" iff none fails and one warns, "pass" iff all six pass), the
\* counts of the summary are those of the six statuses and add up to 6, and
\* the recommendation names exactly the failed checks.
C23_OverallIsWorstOfSixChecks ==
    (Preflighted /\ ValidPreflight(call.args)) =>
        /\ ret.ok
        /\ Len(ret.value.checks) = 6
        /\ \A i \in 1..6 : ret.value.checks[i].name = CheckNames[i]
        /\ StatusesOf(ret.value) \subseteq {"pass", "warning", "fail"}
        /\ ret.value.status = "fail" <=> "fail" \in StatusesOf(ret.value)
        /\ ret.value.status = "warning" <=>
               ("fail" \notin StatusesOf(ret.value) /\ "warning" \in StatusesOf(ret.value))
        /\ ret.value.status = "pass" <=> StatusesOf(ret.value) = {"pass"}
        /\ \E p, w, f \in 0..6 :
               /\ SummaryCounts(ret.value, p, w, f)
               /\ p = Cardinality({i \in 1..6 : ret.value.checks[i].status = "pass"})
               /\ w = Cardinality({i \in 1..6 : ret.value.checks[i].status = "warning"})
               /\ f = Cardinality({i \in 1..6 : ret.value.checks[i].status = "fail"})
        /\ \A i \in 1..6 :
               Contains(ret.value.recommendation, CheckNames[i])
                   <=> ret.value.checks[i].status = "fail"

\* RGB at 225 dpi for offset with a 2 mm bleed and fonts not embedded: two
\* checks fail, two warn, two pass, and the file fails
C23_Witness ==
    /\ Preflighted
    /\ ret.ok
    /\ ret.value.status = "fail"
    /\ ret.value.summary = "2 passed, 2 warnings, 2 failed out of 6 checks."
    /\ ret.value.recommendation = "Fix failed checks before production: color_mode, fonts."
    /\ ret.value.checks[2].status = "warning"
    /\ ret.value.checks[1].message = "RGB is not suitable for offset; convert to CMYK."

SimulatorCalled == call.op = "substrate_simulator"

\* Channels in [0, 100], a known substrate and one of the three methods
ValidSimulation(a) ==
    /\ \A i \in 1..4 : 0 <= a.cmyk[i] /\ a.cmyk[i] <= 100
    /\ lower(a.substrate) \in {"glossy_coated", "matte_coated", "uncoated",
                               "newsprint", "kraft", "recycled"}
    /\ lower(a.print_method) \in {"offset", "digital", "flexo"}

\* C24: for every CMYK input with channels in [0, 100], every known substrate
\* and every print method of offset, digital and flexo, substrate_simulator
\* succeeds (neither cmyk_to_rgb nor color_delta_e raises on the simulated
\* channels) and the four simulated channels are in [0, 100]; black alone
\* (k = 100, c = m = y = 0) on uncoated keeps a simulated k of 100.
C24_SimulatedChannelsStayInRange ==
    (SimulatorCalled /\ ValidSimulation(call.args)) =>
        /\ ret.ok
        /\ \A ch \in {ret.value.simulated.c, ret.value.simulated.m,
                      ret.value.simulated.y, ret.value.simulated.k} :
               0 <= ch /\ ch <= 1000
        /\ (call.args.cmyk = <<0, 0, 0, 100>> /\ lower(call.args.substrate) = "uncoated")
               => ret.value.simulated.k = 1000

\* 95% of every ink on newsprint by flexo: gain and tint take magenta,
\* yellow and black past 100, where they are held
C24_Witness ==
    /\ SimulatorCalled
    /\ call.args = [cmyk |-> <<95, 95, 95, 95>>, substrate |-> "newsprint",
                    print_method |-> "flexo"]
    /\ ret.ok
    /\ ret.value.simulated.c = 967
    /\ ret.value.simulated.m = 987
    /\ ret.value.simulated.y = 1000
    /\ ret.value.simulated.k = 1000

\* A non-empty list of colours with every channel in range and a positive
\* threshold
ValidSeparation ==
    /\ call.colors # <<>>
    /\ \A i \in 1..Len(call.colors) : \A j \in 1..4 : InRange(GetChannels(call.colors[i])[j])
    /\ call.threshold > 0

\* The rounded Delta E from input colour i to its nearest dataset entry
NearestDeltaE(i) == _find_nearest_pantone(dataset, GetChannels(call.colors[i])).de

\* list holds, in input order, the entries of exactly the input colours
\* whose positions are in idx
HoldsInOrder(list, idx) ==
    /\ Len(list) = Cardinality(idx)
    /\ \E f \in [1..Len(list) -> idx] :
           /\ \A a, b \in 1..Len(list) : a < b => f[a] < f[b]
           /\ \A a \in 1..Len(list) :
                  /\ list[a].color.c = GetChannels(call.colors[f[a]])[1]
                  /\ list[a].color.m = GetChannels(call.colors[f[a]])[2]
                  /\ list[a].color.y = GetChannels(call.colors[f[a]])[3]
                  /\ list[a].color.k = GetChannels(call.colors[f[a]])[4]
                  /\ list[a].delta_e = NearestDeltaE(f[a])

\* C25: for a non-empty list of valid colours and a positive threshold,
\* spot_color_separator puts every input colour in exactly one of spot_colors
\* and process_colors (the lengths add up to the number of inputs, each list
\* in input order), and a colour is in spot_colors exactly when the Delta E
\* to its nearest Pantone entry is below the threshold (Delta E < threshold).
C25_SpotExactlyWhenBelowThreshold ==
    (Separated /\ ValidSeparation) =>
        /\ ret.ok
        /\ Len(ret.value.spot_colors) + Len(ret.value.process_colors) = Len(call.colors)
        /\ HoldsInOrder(ret.value.spot_colors,
                        {i \in 1..Len(call.colors) : NearestDeltaE(i) < call.threshold})
        /\ HoldsInOrder(ret.value.process_colors,
                        {i \in 1..Len(call.colors) : ~(NearestDeltaE(i) < call.threshold)})

\* Positions i < j hold distinct entries whose names normalize to the same
\* key, and j is the last position with that key
LastOfSameKey(i, j) ==
    /\ i < j
    /\ dataset[i] # dataset[j]
    /\ KeyOfName[dataset[i].name] = KeyOfName[dataset[j].name]
    /\ \A h \in (j + 1)..Len(dataset) :
           KeyOfName[dataset[h].name] # KeyOfName[dataset[j].name]

\* The key the exact lookup of the call hit: the last candidate probed
HitKey == trace.probed[Len(trace.probed)]

\* C26: if two distinct dataset entries have names that normalize to the same
\* key, _build_lookup keeps for that key only the one that comes last in
\* dataset order, without any error, and a pantone_to_cmyk call whose exact
\* lookup hits that key returns the later entry, never the earlier one.
C26_LastEntryOfSharedKeyWins ==
    \A i, j \in Positions :
        LastOfSameKey(i, j) =>
            /\ _build_lookup(dataset)[KeyOfName[dataset[j].name]] = dataset[j]
            /\ (Resolved /\ trace.path = "exact" /\ HitKey = KeyOfName[dataset[j].name])
                   => /\ ret.ok
                      /\ IsEntry(ret.value, dataset[j])
                      /\ ~IsEntry(ret.value, dataset[i])

\* "Pantone 485 C" comes first and its twin later: "485C" is answered with
\* the twin
C26_Witness ==
    /\ Resolved
    /\ call.pantone_name = "485C"
    /\ \E i, j \in Positions :
           /\ LastOfSameKey(i, j)
           /\ dataset[i] = Entry485C
           /\ dataset[j] = Twin
    /\ trace.path = "exact"
    /\ HitKey = "pantone 485 c"
    /\ ret.ok
    /\ ret.value.name = "PANTONE 485 C"
    /\ ret.value.m = 78

\* The keys of the variant s of the query: the query with s, and its
\* pantone-prefixed form
VariantKeys(raw, s) ==
    {NormalizedQuery(raw) \o " " \o s, "pantone " \o NormalizedQuery(raw) \o " " \o s}

\* The query has words, the last of them no suffix token; its C, U and M
\* variants are in the dataset; no entry is named by the query itself or by
\* its pantone-prefixed form
BareQueryWithVariants(raw) ==
    /\ split(lower(raw)) # <<>>
    /\ ~EndsInSuffixToken(raw)
    /\ \A s \in {"c", "u", "m"} : VariantKeys(raw, s) \cap DatasetKeys # {}
    /\ NormalizedQuery(raw) \notin DatasetKeys
    /\ ("pantone " \o NormalizedQuery(raw)) \notin DatasetKeys

\* C27: for a query with no suffix whose C, U and M variants are all in the
\* dataset, and with no entry named by the bare or pantone-prefixed query
\* itself, pantone_to_cmyk returns the C variant, found by an exact lookup of
\* one of the two c candidates, which are probed before those of u and m.
C27_BareQueryReturnsCoated ==
    (Resolved /\ BareQueryWithVariants(call.pantone_name)) =>
        /\ ret.ok
        /\ trace.path = "exact"
        /\ HitKey \in VariantKeys(call.pantone_name, "c")
        /\ KeyOfName[ret.value.name] \in VariantKeys(call.pantone_name, "c")
        /\ \A j \in 1..Len(trace.probed) :
               trace.probed[j] \notin VariantKeys(call.pantone_name, "u")
                                      \cup VariantKeys(call.pantone_name, "m")

\* The query is the name of the entry at position i, in some letter case and
\* with some extra whitespace before, after or between its words
SpellsNameAt(i) ==
    JoinWords(split(lower(call.pantone_name))) = JoinWords(split(lower(dataset[i].name)))

\* C28: on a dataset whose names normalize to distinct keys, pantone_to_cmyk
\* applied to the name of an entry E, in any letter case and with any extra
\* leading, trailing or internal whitespace, returns E: its name, its c, m,
\* y, k and the hex of cmyk_to_rgb on them, found by the first candidate, so
\* that no other entry takes precedence.
C28_NameRoundTrip ==
    \A i \in Positions :
        (Resolved /\ SpellsNameAt(i)) =>
            /\ ret.ok
            /\ IsEntry(ret.value, dataset[i])
            /\ ret.value.hex = cmyk_to_rgb(dataset[i].c, dataset[i].m, dataset[i].y,
                                           dataset[i].k).value.hex
            /\ trace.path = "exact"
            /\ Len(trace.probed) = 1

\* "Pantone Black 6 C" asked for in another case and with tabs and spaces,
\* in a dataset that holds "Pantone Black C" before it
C28_Witness ==
    /\ Resolved
    /\ call.pantone_name = "Pantone  Black\t6  C"
    /\ \E i, j \in Positions :
           /\ i < j
           /\ dataset[i].name = "Pantone Black C"
           /\ dataset[j].name = "Pantone Black 6 C"
           /\ SpellsNameAt(j)
    /\ ret.ok
    /\ ret.value.name = "Pantone Black 6 C"
    /\ ret.value.hex = "#000000"

\* C29: every entry pantone_to_cmyk returns through the fuzzy fallback shares
\* at least one whitespace token, compared in lower case, with the query, and
\* a token other than pantone, c, u and m whenever the query has one; a query
\* with no tokens (empty or whitespace only) that hits no index key fails
\* with the unknown-colour error.
C29_FuzzyMatchSharesAToken ==
    Resolved =>
        /\ trace.path = "fuzzy" =>
               /\ ret.ok
               /\ Tokens(call.pantone_name) \cap Tokens(ret.value.name) # {}
               /\ Meaningful(call.pantone_name) # {}
                      => Meaningful(call.pantone_name) \cap Meaningful(ret.value.name) # {}
        /\ (Tokens(call.pantone_name) = {} /\ trace.path # "exact") =>
               /\ ~ret.ok
               /\ ret = UnknownPantone(call.pantone_name)

\* "6 black" has no exact candidate in the dataset and is answered with
\* "Pantone Black 6 C", which shares both its tokens
C29_Witness ==
    /\ Resolved
    /\ call.pantone_name = "6 black"
    /\ trace.path = "fuzzy"
    /\ ret.ok
    /\ ret.value.name = "Pantone Black 6 C"
    /\ Meaningful(call.pantone_name) \cap Meaningful(ret.value.name) = {"6", "black"}

\* The name of the first match of pantone_search(c=, m=, y=, k=, limit=1)
\* on the dataset
FirstSearchMatch(cmyk) ==
    RankedMatches(dataset,
                  SearchTarget(None, Some(cmyk[1]), Some(cmyk[2]), Some(cmyk[3]),
                               Some(cmyk[4])).value,
                  1).ret.value.matches[1].name

\* The entries spot_color_separator returned, spot and process
SeparatedEntries == ret.value.spot_colors \o ret.value.process_colors

ColourOf(entry) == <<entry.color.c, entry.color.m, entry.color.y, entry.color.k>>

\* C30: for every valid CMYK colour and every non-empty dataset the entry
\* _find_nearest_pantone names is the first match of pantone_search with the
\* same CMYK and limit 1: the minimum Lab distance and, among entries at
\* equal distance, the first in dataset order.  Seen from a
\* spot_color_separator call and from a pantone_search call.
C30_NearestIsFirstSearchMatch ==
    dataset # <<>> =>
        /\ (Separated /\ ret.ok) =>
               \A n \in 1..Len(SeparatedEntries) :
                   /\ SeparatedEntries[n].nearest_pantone
                          = FirstSearchMatch(ColourOf(SeparatedEntries[n]))
                   /\ \E p \in Positions :
                          /\ dataset[p].name = SeparatedEntries[n].nearest_pantone
                          /\ \A h \in Positions :
                                 LabDistance2(_cmyk_to_lab(ColourOf(SeparatedEntries[n])[1],
                                                           ColourOf(SeparatedEntries[n])[2],
                                                           ColourOf(SeparatedEntries[n])[3],
                                                           ColourOf(SeparatedEntries[n])[4]),
                                              LabOfEntry[dataset[h]])
                                 >= LabDistance2(_cmyk_to_lab(ColourOf(SeparatedEntries[n])[1],
                                                              ColourOf(SeparatedEntries[n])[2],
                                                              ColourOf(SeparatedEntries[n])[3],
                                                              ColourOf(SeparatedEntries[n])[4]),
                                                 LabOfEntry[dataset[p]])
        /\ (Searched /\ ret.ok /\ ~HexGiven /\ call.limit = 1) =>
               Matches[1].name
                   = _find_nearest_pantone(dataset, [j \in 1..4 |-> Val(call.cmyk[j])]).name

\* A colour separated on a dataset in which "Pantone Black 6 C" comes before
\* "Pantone Black C", both at the same distance from it and nearer than any
\* other entry: the first of the two is named
C30_Witness ==
    /\ Separated
    /\ ret.ok
    /\ \E p, q \in Positions :
           /\ p < q
           /\ dataset[p].name = "Pantone Black 6 C"
           /\ dataset[q].name = "Pantone Black C"
    /\ \E n \in 1..Len(SeparatedEntries) :
           /\ SeparatedEntries[n].nearest_pantone = "Pantone Black 6 C"
           /\ FirstSearchMatch(ColourOf(SeparatedEntries[n])) = "Pantone Black 6 C"

=============================================================================
